---- MODULE Spec2Model ----
(***************************************************************************)
(* Model of the iBarangay backend (JJProjectStash/aibarangay-be):          *)
(*   - the login lockout of the User model and the POST /api/auth/login    *)
(*     handler (models/User.js, routes/auth.js);                           *)
(*   - the bulk status update handlers of complaints and service requests  *)
(*     (routes/complaints.js, routes/services.js).                         *)
(*                                                                         *)
(* Granularity.  A handler is an async function: every stretch of          *)
(* synchronous code between two awaits is one action (one turn of the      *)
(* event loop) and reads one value of the clock; time passes between       *)
(* turns.  A persistence call that is awaited inside a try block either    *)
(* resolves or throws, which the action that resumes after the await       *)
(* chooses.  createAuditLog catches its own errors and never throws.       *)
(***************************************************************************)
EXTENDS Integers, Sequences, FiniteSets, TLC

VARIABLES
    env,        \* process.env entries read by the lockout configuration
    now,        \* Date.now(), in milliseconds
    ticks,      \* number of clock advances so far (bounds the run)
    user,       \* the stored User document (lockout fields)
    login,      \* per session: the POST /login request being served
    consecFails,\* wrong-password attempts recorded since the last successful login
    complaints, \* the stored Complaint documents, by _id
    services,   \* the stored ServiceRequest documents, by _id
    notifications, \* the Notification documents created so far
    auditLogs,  \* the AuditLog documents created so far
    bulk,       \* the POST /bulk-status request being served
    nBulk,      \* number of bulk requests received so far (bounds the run)
    track,      \* the create / status / comment request being served
    nTrack,     \* number of such requests received so far (bounds the run)
    list,       \* the GET / (list) request being served
    clock,      \* the job's wall clock, in half days of local time
    loans,      \* the ServiceRequest documents the job scans, by _id
    notices,    \* the Notification documents the job created so far
    job,        \* the run of checkOverdueServices in progress
    nJob,       \* number of runs started so far (bounds the run)
    account,    \* the stored User document of the login account, other paths
    registry,   \* the stored User documents of the other accounts, by _id
    acct,       \* the register / profile / admin update request being served
    nAcct,      \* number of such requests received so far (bounds the run)
    events,     \* the stored Event documents, by _id
    reg,        \* per session: the events request being served
    nReg        \* number of events requests received so far (bounds the run)

loginVars == <<env, now, ticks, user, login, consecFails>>
bulkVars == <<complaints, services, notifications, auditLogs, bulk, nBulk>>
trackVars == <<track, nTrack>>
listVars == <<list>>
jobVars == <<clock, loans, notices, job, nJob>>
acctVars == <<account, registry, acct, nAcct>>
eventVars == <<events, reg, nReg>>
vars == <<loginVars, bulkVars, trackVars, listVars, jobVars, acctVars, eventVars>>

----------------------------------------------------------------------------
(* Bounds of the model                                                     *)

MaxTicks == 4
MaxLoginAttempts == 7
MaxIds == 3
MaxBulk == 1
MaxTrack == 2
MaxOps == 2
MaxIdsTrack == 1
MaxClock == 5
MaxRuns == 3
MaxAcct == 1
MaxConcTicks == 1
MaxConcFails == 2
MaxAcctTicks == 1
MaxAcctFails == 2
MaxReg == 4

\* amounts by which the clock advances between two turns (ms)
TickSteps == {1, 999, 299000}

Sessions == {"s1"}

----------------------------------------------------------------------------
(* Values                                                                  *)

NULL == -1                     \* null / undefined (dates)
NoDoc == [none |-> TRUE]       \* null (documents)
UNDEFINED == "undefined"       \* undefined (strings)

Max(a, b) == IF a >= b THEN a ELSE b

\* Math.ceil(n / d) for n >= 0, d > 0
Ceil(n, d) == (n + d - 1) \div d

\* parseInt(process.env.X) || dflt.  An environment entry is <<>> when the
\* variable is unset or does not start with a number (parseInt gives NaN) and
\* <<n>> when it parses to n; NaN and 0 are falsy, every other number is kept.
ParseIntOr(v, dflt) == IF v = <<>> THEN dflt ELSE IF v[1] = 0 THEN dflt ELSE v[1]

DefaultEnv == [LOGIN_MAX_ATTEMPTS |-> <<>>, LOGIN_LOCKOUT_DURATION_MS |-> <<>>,
               REQUEST_TIMEOUT_SECONDS |-> <<>>]

LOCKOUT_CONFIG ==
    [maxAttempts     |-> ParseIntOr(env.LOGIN_MAX_ATTEMPTS, 5),
     lockoutDuration |-> ParseIntOr(env.LOGIN_LOCKOUT_DURATION_MS, 5 * 60 * 1000)]

\* middleware/timeout.js: the socket timeout after which the request is
\* answered 408 instead of by its handler (ms)
RequestTimeoutMs == ParseIntOr(env.REQUEST_TIMEOUT_SECONDS, 30) * 1000

----------------------------------------------------------------------------
(* models/User.js: lockout fields and methods.  u is a document, t the     *)
(* value of Date.now() of the turn that runs the method.                   *)

NewUser == [loginAttempts |-> 0, lockoutUntil |-> NULL, lastFailedLogin |-> NULL]

\* variant of isLockedOut that treats the lock as stored, not computed
isLockedOut_NoClock(u, t) == u.lockoutUntil # NULL

isLockedOut(u, t) == u.lockoutUntil # NULL /\ u.lockoutUntil > t

getRemainingLockoutTime(u, t) ==
    IF ~isLockedOut(u, t) THEN 0 ELSE Ceil(u.lockoutUntil - t, 1000)

\* variants of incrementLoginAttempts with a wrong threshold test
incrementLoginAttempts_OffByOne(u, t) ==
    LET n == u.loginAttempts + 1
    IN [loginAttempts   |-> n,
        lastFailedLogin |-> t,
        lockoutUntil    |-> IF n > LOCKOUT_CONFIG.maxAttempts
                            THEN t + LOCKOUT_CONFIG.lockoutDuration
                            ELSE u.lockoutUntil]

incrementLoginAttempts_ExactMax(u, t) ==
    LET n == u.loginAttempts + 1
    IN [loginAttempts   |-> n,
        lastFailedLogin |-> t,
        lockoutUntil    |-> IF n = LOCKOUT_CONFIG.maxAttempts
                            THEN t + LOCKOUT_CONFIG.lockoutDuration
                            ELSE u.lockoutUntil]

\* variant of incrementLoginAttempts that starts a new count once a lock has
\* expired
incrementLoginAttempts_RestartsCount(u, t) ==
    LET n == IF u.lockoutUntil # NULL /\ u.lockoutUntil <= t
             THEN 1 ELSE u.loginAttempts + 1
    IN [loginAttempts   |-> n,
        lastFailedLogin |-> t,
        lockoutUntil    |-> IF n >= LOCKOUT_CONFIG.maxAttempts
                            THEN t + LOCKOUT_CONFIG.lockoutDuration
                            ELSE u.lockoutUntil]

\* the synchronous part of incrementLoginAttempts (before await this.save())
incrementLoginAttempts(u, t) ==
    LET n == u.loginAttempts + 1
    IN [loginAttempts   |-> n,
        lastFailedLogin |-> t,
        lockoutUntil    |-> IF n >= LOCKOUT_CONFIG.maxAttempts
                            THEN t + LOCKOUT_CONFIG.lockoutDuration
                            ELSE u.lockoutUntil]

\* resetLoginAttempts changes and saves the document only under this condition
resetNeeded(u) == u.loginAttempts > 0 \/ u.lockoutUntil # NULL

\* variant of resetLoginAttempts that clears the lock but not the counter
resetLoginAttempts_KeepsCount(u) ==
    IF resetNeeded(u) THEN [u EXCEPT !.lockoutUntil = NULL] ELSE u

resetLoginAttempts(u) ==
    IF resetNeeded(u)
    THEN [loginAttempts |-> 0, lockoutUntil |-> NULL, lastFailedLogin |-> NULL]
    ELSE u

\* document.save(): $set of the paths whose value differs from the value
\* that was loaded (orig); the other stored paths are left as they are
Save(stored, orig, doc) ==
    [f \in DOMAIN stored |-> IF doc[f] # orig[f] THEN doc[f] ELSE stored[f]]

----------------------------------------------------------------------------
(* routes/auth.js: POST /api/auth/login.  matchPassword is bcrypt.compare  *)
(* of the supplied password with the stored hash; the request carries      *)
(* whether the supplied password is the account's password.                *)

NoResp == [status |-> 0]

IdleLogin ==
    [pc |-> "idle", email |-> "none", password |-> "none", started |-> 0,
     orig |-> NewUser, doc |-> NewUser, compared |-> FALSE,
     remainingSeconds |-> 0, remainingAttempts |-> 0, resp |-> NoResp]

Emails == {"known", "unknown"}
Passwords == {"", "wrong", "correct"}

Respond(s, r) ==
    login' = [login EXCEPT ![s].pc = "idle", ![s].resp = r]

\* Lines 137-153: validation, then await User.findOne({email})
LoginReceived(s, email, password) ==
    /\ login[s].pc = "idle"
    /\ user.loginAttempts < MaxLoginAttempts
    /\ IF password = ""
       THEN login' = [login EXCEPT ![s] = [IdleLogin EXCEPT !.email = email,
                          !.password = password, !.started = now,
                          !.resp = [status |-> 400]]]
       ELSE login' = [login EXCEPT ![s] = [IdleLogin EXCEPT !.pc = "findOne",
                          !.email = email, !.password = password, !.started = now]]
    /\ UNCHANGED <<env, now, ticks, user, consecFails>>

\* a login request received while no other is being served
LoginStart(s, email, password) ==
    /\ \A o \in DOMAIN login : login[o].pc = "idle"
    /\ LoginReceived(s, email, password)

\* Lines 153-181 (first half): findOne resolved or threw; no such user; the
\* lock check and, when locked, remainingSeconds before await createAuditLog
LoginFindOne(s) ==
    /\ login[s].pc = "findOne"
    /\ \/ Respond(s, [status |-> 500])
       \/ /\ login[s].email = "unknown"
          /\ Respond(s, [status |-> 401, message |-> "Invalid email or password"])
       \/ /\ login[s].email = "known"
          /\ login' = [login EXCEPT
                 ![s].orig = user, ![s].doc = user,
                 ![s].pc = IF isLockedOut(user, now) THEN "auditLocked" ELSE "matchPassword",
                 ![s].remainingSeconds = getRemainingLockoutTime(user, now)]
    /\ UNCHANGED <<env, now, ticks, user, consecFails>>

\* variant of LoginLocked that counts the rejected attempt as a failure
LoginLocked_CountsAttempt(s) ==
    /\ login[s].pc = "auditLocked"
    /\ Respond(s, [status |-> 423, lockoutUntil |-> login[s].doc.lockoutUntil,
                   isLockedOut |-> TRUE,
                   remainingSeconds |-> login[s].remainingSeconds])
    /\ user' = incrementLoginAttempts(user, now)
    /\ UNCHANGED <<env, now, ticks, consecFails>>

\* Lines 164-180: createAuditLog returned; the locked response
LoginLocked(s) ==
    /\ login[s].pc = "auditLocked"
    /\ Respond(s, [status |-> 423, lockoutUntil |-> login[s].doc.lockoutUntil,
                   isLockedOut |-> TRUE,
                   remainingSeconds |-> login[s].remainingSeconds])
    /\ UNCHANGED <<env, now, ticks, user, consecFails>>

\* variant of LoginMatchPassword whose resetLoginAttempts saves every time
LoginMatchPassword_AlwaysSaves(s) ==
    /\ login[s].pc = "matchPassword"
    /\ LET isMatch == login[s].password = "correct"
           d == login[s].doc
       IN login' = [login EXCEPT
              ![s].compared = TRUE,
              ![s].doc = IF ~isMatch THEN incrementLoginAttempts(d, now)
                         ELSE resetLoginAttempts(d),
              ![s].pc = IF ~isMatch THEN "saveAttempts" ELSE "saveReset"]
    /\ UNCHANGED <<env, now, ticks, user, consecFails>>

\* Lines 184-187 and 228: matchPassword resolved; on a mismatch the
\* synchronous part of incrementLoginAttempts, otherwise of resetLoginAttempts
LoginMatchPassword(s) ==
    /\ login[s].pc = "matchPassword"
    /\ LET isMatch == login[s].password = "correct"
           d == login[s].doc
       IN login' = [login EXCEPT
              ![s].compared = TRUE,
              ![s].doc = IF ~isMatch THEN incrementLoginAttempts(d, now)
                         ELSE resetLoginAttempts(d),
              ![s].pc = IF ~isMatch THEN "saveAttempts"
                        ELSE IF resetNeeded(d) THEN "saveReset" ELSE "auditSuccess"]
    /\ UNCHANGED <<env, now, ticks, user, consecFails>>

\* Lines 187-203: this.save() of incrementLoginAttempts resolved or threw
\* (the handler's catch answers 500); then remainingAttempts
LoginSaveAttempts(s) ==
    /\ login[s].pc = "saveAttempts"
    /\ \/ /\ Respond(s, [status |-> 500])
          /\ UNCHANGED <<user, consecFails>>
       \/ /\ user' = Save(user, login[s].orig, login[s].doc)
          /\ consecFails' = consecFails + 1
          /\ login' = [login EXCEPT
                 ![s].pc = "auditFailed",
                 ![s].remainingAttempts =
                     Max(0, ParseIntOr(env.LOGIN_MAX_ATTEMPTS, 5) - login[s].doc.loginAttempts)]
    /\ UNCHANGED <<env, now, ticks>>

\* variant of LoginFailed without the second lock check
LoginFailed_Always401(s) ==
    /\ login[s].pc = "auditFailed"
    /\ Respond(s, [status |-> 401, message |-> "Invalid email or password",
                   remainingAttempts |-> login[s].remainingAttempts])
    /\ UNCHANGED <<env, now, ticks, user, consecFails>>

\* Lines 205-224: createAuditLog returned; did this attempt cause a lockout
LoginFailed(s) ==
    /\ login[s].pc = "auditFailed"
    /\ IF isLockedOut(login[s].doc, now)
       THEN Respond(s, [status |-> 423, lockoutUntil |-> login[s].doc.lockoutUntil,
                        isLockedOut |-> TRUE,
                        remainingSeconds |-> getRemainingLockoutTime(login[s].doc, now),
                        remainingAttempts |-> 0])
       ELSE Respond(s, [status |-> 401, message |-> "Invalid email or password",
                        remainingAttempts |-> login[s].remainingAttempts])
    /\ UNCHANGED <<env, now, ticks, user, consecFails>>

\* Lines 228-237: this.save() of resetLoginAttempts resolved or threw
LoginSaveReset(s) ==
    /\ login[s].pc = "saveReset"
    /\ \/ /\ Respond(s, [status |-> 500])
          /\ UNCHANGED <<user, consecFails>>
       \/ /\ user' = Save(user, login[s].orig, login[s].doc)
          /\ consecFails' = 0
          /\ login' = [login EXCEPT ![s].pc = "auditSuccess"]
    /\ UNCHANGED <<env, now, ticks>>

\* Lines 230-251: createAuditLog returned; 200 with the session token
LoginSuccess(s) ==
    /\ login[s].pc = "auditSuccess"
    /\ Respond(s, [status |-> 200, token |-> TRUE])
    /\ consecFails' = 0
    /\ UNCHANGED <<env, now, ticks, user>>

\* The clock.  While a request is being served less than the request
\* timeout elapses: after it the socket timeout answers 408 in place of the
\* handler (middleware/timeout.js).
Tick(d) ==
    /\ ticks < MaxTicks
    /\ \A s \in DOMAIN login :
          login[s].pc # "idle" => now + d - login[s].started < RequestTimeoutMs
    /\ now' = now + d
    /\ ticks' = ticks + 1
    /\ UNCHANGED <<env, user, login, consecFails>>

InitLogin ==
    /\ env = DefaultEnv
    /\ now = 0
    /\ ticks = 0
    /\ user = NewUser
    /\ login = [s \in Sessions |-> IdleLogin]
    /\ consecFails = 0

NextLogin ==
    \/ \E s \in DOMAIN login, e \in Emails, p \in Passwords : LoginStart(s, e, p)
    \/ \E s \in DOMAIN login : LoginFindOne(s)
    \/ \E s \in DOMAIN login : LoginLocked(s)
    \/ \E s \in DOMAIN login : LoginMatchPassword(s)
    \/ \E s \in DOMAIN login : LoginSaveAttempts(s)
    \/ \E s \in DOMAIN login : LoginFailed(s)
    \/ \E s \in DOMAIN login : LoginSaveReset(s)
    \/ \E s \in DOMAIN login : LoginSuccess(s)
    \/ \E d \in TickSteps : Tick(d)

\* the requests of two clients, received at any time: their turns interleave
ConcurrentSessions == {"s1", "s2"}

InitLoginConcurrent ==
    /\ env = DefaultEnv
    /\ now = 0
    /\ ticks = 0
    /\ user = NewUser
    /\ login = [s \in ConcurrentSessions |-> IdleLogin]
    /\ consecFails = 0

NextLoginConcurrent ==
    /\ \/ \E s \in DOMAIN login, e \in Emails, p \in Passwords : LoginReceived(s, e, p)
       \/ \E s \in DOMAIN login : LoginFindOne(s)
       \/ \E s \in DOMAIN login : LoginLocked(s)
       \/ \E s \in DOMAIN login : LoginMatchPassword(s)
       \/ \E s \in DOMAIN login : LoginSaveAttempts(s)
       \/ \E s \in DOMAIN login : LoginFailed(s)
       \/ \E s \in DOMAIN login : LoginSaveReset(s)
       \/ \E s \in DOMAIN login : LoginSuccess(s)
       \/ \E d \in TickSteps : Tick(d)
    /\ ticks' <= MaxConcTicks
    /\ consecFails' <= MaxConcFails


----------------------------------------------------------------------------
(* models/Complaint.js, models/ServiceRequest.js, models/AuditLog.js       *)

ComplaintStatuses == {"pending", "in-progress", "resolved", "closed"}
ServiceStatuses == {"pending", "approved", "borrowed", "returned", "rejected"}
AuditStatuses == {"success", "failure"}

StatusesOf(kind) == IF kind = "complaint" THEN ComplaintStatuses ELSE ServiceStatuses

\* complaintSchema.pre("save") on a new document
FiledEntry == [action |-> "Complaint Filed", by |-> "System", timestamp |-> 0, note |-> UNDEFINED]

NewComplaint(owner) ==
    [userId |-> owner, status |-> "pending", history |-> <<FiledEntry>>, comments |-> <<>>]

NewService(owner) ==
    [userId |-> owner, status |-> "pending", rejectionReason |-> UNDEFINED, approvalNote |-> UNDEFINED]

\* _ids: "a" and "c" name stored documents, "b" is a well-formed id of no document
Ids == {"a", "b", "c"}
StoredIds == {"a", "c"}
OwnerOf(id) == IF id = "a" THEN "resident1" ELSE "staff1"

\* req.user of the bulk requests (protect, authorize("staff", "admin"))
Actor == [id |-> "staff1", name |-> "Sam Staff", role |-> "staff"]

----------------------------------------------------------------------------
(* routes/complaints.js and routes/services.js: POST /bulk-status          *)

IdLists == UNION {[1..n -> Ids] : n \in 0..MaxIds}
Kinds == {"complaint", "service"}
\* the statuses of the kind, one status of the other kind only, and none
StatusInputs(kind) ==
    StatusesOf(kind) \cup {IF kind = "complaint" THEN "rejected" ELSE "in-progress", ""}
Notes == {UNDEFINED, "", " ", "bad request"}

\* body("note").optional().trim()
Trim(note) == IF note = " " THEN "" ELSE note

\* JavaScript truthiness of the note
Truthy(note) == note # UNDEFINED /\ note # ""

NotFoundMessage(kind) ==
    IF kind = "complaint" THEN "Complaint not found" ELSE "Service request not found"

IdleBulk ==
    [pc |-> "idle", kind |-> "none", ids |-> <<>>, status |-> "", note |-> UNDEFINED,
     i |-> 0, results |-> <<>>, successCount |-> 0, failedCount |-> 0,
     orig |-> NoDoc, doc |-> NoDoc, oldStatus |-> "", resp |-> NoResp]

Store(kind) == IF kind = "complaint" THEN complaints ELSE services

\* the express-validator chain of the route
BulkValid(kind, ids, status) == Len(ids) >= 1 /\ status \in StatusesOf(kind)

\* variant of RejectionNeedsNote that tests for a missing note only
RejectionNeedsNote_OnlyUndefined(kind, status, note) ==
    kind = "service" /\ status = "rejected" /\ note = UNDEFINED

\* services.js lines 364-369 (the complaints handler has no such check)
RejectionNeedsNote(kind, status, note) ==
    kind = "service" /\ status = "rejected" /\ ~Truthy(note)

\* what the request becomes after validation and the rejection check: an
\* error response, or the first await findById
Received(kind, ids, status, rawNote) ==
    LET note == Trim(rawNote)
        req == [IdleBulk EXCEPT !.kind = kind, !.ids = ids, !.status = status, !.note = note]
    IN IF ~BulkValid(kind, ids, status)
       THEN [req EXCEPT !.resp = [status |-> 400, message |-> "Validation failed"]]
       ELSE IF RejectionNeedsNote(kind, status, note)
       THEN [req EXCEPT !.resp = [status |-> 400,
                 message |-> "Rejection reason is required when rejecting requests"]]
       ELSE [req EXCEPT !.pc = "findById", !.i = 1]

\* a bulk request whose list of ids is one of lists is received
BulkReceivedOf(lists) ==
    /\ bulk.pc = "idle"
    /\ nBulk < MaxBulk
    /\ nBulk + nTrack < MaxOps
    /\ nBulk' = nBulk + 1
    /\ \E kind \in Kinds, ids \in lists, rawNote \in Notes :
          \E status \in StatusInputs(kind) :
             bulk' = Received(kind, ids, status, rawNote)
    /\ UNCHANGED <<complaints, services, notifications, auditLogs>>

\* a bulk request received while no other request is being served
BulkStartOf(lists) ==
    /\ track.pc = "idle"
    /\ BulkReceivedOf(lists)

BulkStart == BulkStartOf(IdLists)

\* end of one iteration of for (const id of ids): the next id, or the audit log
NextItem(b) ==
    IF b.i < Len(b.ids)
    THEN [b EXCEPT !.i = b.i + 1, !.pc = "findById", !.orig = NoDoc, !.doc = NoDoc,
                   !.oldStatus = ""]
    ELSE [b EXCEPT !.pc = "audit", !.orig = NoDoc, !.doc = NoDoc, !.oldStatus = ""]

\* variant of ItemFailed that forgets failedCount++
ItemFailed_NoCount(b, message) ==
    NextItem([b EXCEPT !.results = Append(b.results,
                           [id |-> b.ids[b.i], success |-> FALSE, error |-> message])])

\* variant of ItemFailed that leaves the loop at the first failure
ItemFailed_Aborts(b, message) ==
    [b EXCEPT !.results = Append(b.results,
                  [id |-> b.ids[b.i], success |-> FALSE, error |-> message]),
              !.failedCount = b.failedCount + 1,
              !.pc = "audit", !.orig = NoDoc, !.doc = NoDoc, !.oldStatus = ""]

\* catch (err) of the item, and the not-found branch
ItemFailed(b, message) ==
    NextItem([b EXCEPT !.results = Append(b.results,
                           [id |-> b.ids[b.i], success |-> FALSE, error |-> message]),
                       !.failedCount = b.failedCount + 1])

ItemSucceeded(b) ==
    NextItem([b EXCEPT !.results = Append(b.results, [id |-> b.ids[b.i], success |-> TRUE]),
                       !.successCount = b.successCount + 1])

\* the assignments between findById and save
ApplyStatus(kind, doc, status, note) ==
    IF kind = "complaint"
    THEN [doc EXCEPT !.status = status,
                     !.history = Append(doc.history,
                         [action |-> <<"Status Updated to", status>>,
                          by |-> Actor.name, timestamp |-> now,
                          note |-> IF Truthy(note) THEN note ELSE "Bulk status update"])]
    ELSE [doc EXCEPT !.status = status,
                     !.rejectionReason = IF status = "rejected" THEN note ELSE @,
                     !.approvalNote = IF status = "approved" THEN note ELSE @]

\* document.save() of a stored document: $set of the modified paths, $push
\* of the elements pushed to an array since the document was loaded
Pushed(stored, orig, doc) == stored \o SubSeq(doc, Len(orig) + 1, Len(doc))

SaveDoc(kind, stored, orig, doc) ==
    IF kind = "complaint"
    THEN [userId   |-> stored.userId,
          status   |-> IF doc.status # orig.status THEN doc.status ELSE stored.status,
          history  |-> Pushed(stored.history, orig.history, doc.history),
          comments |-> Pushed(stored.comments, orig.comments, doc.comments)]
    ELSE Save(stored, orig, doc)

\* the statusHistory of a stored document: the history path of a complaint;
\* serviceRequestSchema has no such path
HistoryOf(kind, doc) == IF kind = "complaint" THEN doc.history ELSE <<>>

\* the store of the kind holds d under id after this step
Stores(kind, id, d) ==
    IF kind = "complaint"
    THEN /\ complaints' = [i \in DOMAIN complaints \cup {id} |->
                              IF i = id THEN d ELSE complaints[i]]
         /\ UNCHANGED services
    ELSE /\ services' = [i \in DOMAIN services \cup {id} |->
                            IF i = id THEN d ELSE services[i]]
         /\ UNCHANGED complaints

\* findById resolved or threw
BulkFindById ==
    /\ bulk.pc = "findById"
    /\ LET id == bulk.ids[bulk.i]
       IN \/ bulk' = ItemFailed(bulk, "exception")
          \/ /\ id \notin DOMAIN Store(bulk.kind)
             /\ bulk' = ItemFailed(bulk, NotFoundMessage(bulk.kind))
          \/ /\ id \in DOMAIN Store(bulk.kind)
             /\ bulk' = [bulk EXCEPT
                    !.oldStatus = Store(bulk.kind)[id].status,
                    !.orig = Store(bulk.kind)[id],
                    !.doc = ApplyStatus(bulk.kind, Store(bulk.kind)[id], bulk.status, bulk.note),
                    !.pc = "save"]
    /\ UNCHANGED <<complaints, services, notifications, auditLogs, nBulk>>

\* variant of BulkSave without the owner test
BulkSave_NotifiesActor ==
    /\ bulk.pc = "save"
    /\ LET id == bulk.ids[bulk.i]
       IN \/ /\ bulk' = ItemFailed(bulk, "exception")
             /\ UNCHANGED <<complaints, services>>
          \/ /\ Stores(bulk.kind, id, SaveDoc(bulk.kind, Store(bulk.kind)[id], bulk.orig, bulk.doc))
             /\ bulk' = [bulk EXCEPT !.pc = "notify"]
    /\ UNCHANGED <<notifications, auditLogs, nBulk>>

\* variant of BulkSave whose failed save has written the document
BulkSave_ThrowsAfterWrite ==
    /\ bulk.pc = "save"
    /\ LET id == bulk.ids[bulk.i]
       IN \/ /\ bulk' = ItemFailed(bulk, "exception")
             /\ Stores(bulk.kind, id, SaveDoc(bulk.kind, Store(bulk.kind)[id], bulk.orig, bulk.doc))
          \/ /\ Stores(bulk.kind, id, SaveDoc(bulk.kind, Store(bulk.kind)[id], bulk.orig, bulk.doc))
             /\ bulk' = IF bulk.doc.userId # Actor.id
                        THEN [bulk EXCEPT !.pc = "notify"]
                        ELSE ItemSucceeded(bulk)
    /\ UNCHANGED <<notifications, auditLogs, nBulk>>

\* save resolved or threw; then the owner test
BulkSave ==
    /\ bulk.pc = "save"
    /\ LET id == bulk.ids[bulk.i]
       IN \/ /\ bulk' = ItemFailed(bulk, "exception")
             /\ UNCHANGED <<complaints, services>>
          \/ /\ Stores(bulk.kind, id, SaveDoc(bulk.kind, Store(bulk.kind)[id], bulk.orig, bulk.doc))
             /\ bulk' = IF bulk.doc.userId # Actor.id
                        THEN [bulk EXCEPT !.pc = "notify"]
                        ELSE ItemSucceeded(bulk)
    /\ UNCHANGED <<notifications, auditLogs, nBulk>>

NotificationType(kind, status) ==
    IF kind = "complaint"
    THEN IF status = "resolved" THEN "success"
         ELSE IF status = "closed" THEN "info" ELSE "warning"
    ELSE IF status = "approved" \/ status = "returned" THEN "success"
         ELSE IF status = "rejected" THEN "error" ELSE "info"

\* Notification.create resolved or threw (inside the item's try block)
BulkNotify ==
    /\ bulk.pc = "notify"
    /\ \/ /\ bulk' = ItemFailed(bulk, "exception")
          /\ UNCHANGED notifications
       \/ /\ notifications' = Append(notifications,
                 [userId |-> bulk.doc.userId, kind |-> bulk.kind, id |-> bulk.ids[bulk.i],
                  from |-> bulk.oldStatus, to |-> bulk.status,
                  type |-> NotificationType(bulk.kind, bulk.status)])
          /\ bulk' = ItemSucceeded(bulk)
    /\ UNCHANGED <<complaints, services, auditLogs, nBulk>>

\* utils/createAuditLog.js: AuditLog.create validates status against the
\* schema enum; a validation or store error is caught and logged
createAuditLog(logs, entry, storeFails) ==
    IF entry.status \in AuditStatuses /\ ~storeFails THEN Append(logs, entry) ELSE logs

\* variant of BulkAudit whose success flag is that of the audit log
BulkAudit_SuccessIfAny ==
    /\ bulk.pc = "audit"
    /\ \E storeFails \in BOOLEAN :
          auditLogs' = createAuditLog(auditLogs,
              [userId |-> Actor.id,
               action |-> IF bulk.kind = "complaint" THEN "BULK_UPDATE_COMPLAINT_STATUS"
                          ELSE "BULK_UPDATE_SERVICE_STATUS",
               resource |-> <<"Updated", bulk.successCount, bulk.status>>,
               status |-> IF bulk.successCount > 0 THEN "success" ELSE "failed"],
              storeFails)
    /\ bulk' = [bulk EXCEPT !.pc = "idle",
                   !.resp = [status |-> 200, success |-> bulk.successCount > 0,
                             updated |-> bulk.successCount, failed |-> bulk.failedCount,
                             results |-> bulk.results]]
    /\ UNCHANGED <<complaints, services, notifications, nBulk>>

\* after the loop: the audit log, then res.json
BulkAudit ==
    /\ bulk.pc = "audit"
    /\ \E storeFails \in BOOLEAN :
          auditLogs' = createAuditLog(auditLogs,
              [userId |-> Actor.id,
               action |-> IF bulk.kind = "complaint" THEN "BULK_UPDATE_COMPLAINT_STATUS"
                          ELSE "BULK_UPDATE_SERVICE_STATUS",
               resource |-> <<"Updated", bulk.successCount, bulk.status>>,
               status |-> IF bulk.successCount > 0 THEN "success" ELSE "failed"],
              storeFails)
    /\ bulk' = [bulk EXCEPT !.pc = "idle",
                   !.resp = [status |-> 200, success |-> bulk.failedCount = 0,
                             updated |-> bulk.successCount, failed |-> bulk.failedCount,
                             results |-> bulk.results]]
    /\ UNCHANGED <<complaints, services, notifications, nBulk>>

InitBulk ==
    /\ complaints = [id \in StoredIds |-> NewComplaint(OwnerOf(id))]
    /\ services = [id \in StoredIds |-> NewService(OwnerOf(id))]
    /\ notifications = <<>>
    /\ auditLogs = <<>>
    /\ bulk = IdleBulk
    /\ nBulk = 0

NextBulk ==
    \/ BulkStart
    \/ BulkFindById
    \/ BulkSave
    \/ BulkNotify
    \/ BulkAudit

----------------------------------------------------------------------------
(* routes/complaints.js (both versions of the file) and routes/services.js: *)
(* POST / (create), PUT /:id/status and POST /:id/comments.  The request   *)
(* that sets a status is made by Actor (authorize("staff", "admin")).      *)

Resident1 == [id |-> "resident1", name |-> "Rica Resident", role |-> "resident"]
Resident2 == [id |-> "resident2", name |-> "Rene Resident", role |-> "resident"]
Actors == {Actor, Resident1, Resident2}

\* the two versions of the complaints router and the services router
Routes == {"unnamed/part_007", "routes/complaints.js", "routes/services.js"}
ComplaintRoutes == {"unnamed/part_007", "routes/complaints.js"}
KindOf(route) == IF route = "routes/services.js" THEN "service" ELSE "complaint"

\* the router has an express-validator chain in front of its handlers
Validated(route) == route # "routes/complaints.js"

Messages == {"", "hello"}

IdleTrack ==
    [pc |-> "idle", op |-> "none", route |-> "none", kind |-> "none", id |-> "none",
     actor |-> Actor, status |-> "", note |-> UNDEFINED, message |-> "", valid |-> TRUE,
     orig |-> NoDoc, doc |-> NoDoc, oldStatus |-> "", resp |-> NoResp]

\* the handler of the single-document routes is free
TrackFree ==
    /\ track.pc = "idle"
    /\ nTrack < MaxTrack
    /\ nBulk + nTrack < MaxOps

\* requests are served one at a time
TrackIdle ==
    /\ TrackFree
    /\ bulk.pc = "idle"

\* the response is sent: the handler's documents are dropped
TrackRespond(r) ==
    track' = [track EXCEPT !.pc = "idle", !.orig = NoDoc, !.doc = NoDoc,
                           !.oldStatus = "", !.resp = r]

\* variant of SchemaValid without the enum of status
SchemaValid_NoEnum(kind, doc) ==
    kind = "complaint" => \A i \in 1..Len(doc.comments) : doc.comments[i].message # ""

\* the schema validation that document.save() runs on the modified paths
SchemaValid(kind, doc) ==
    /\ doc.status \in StatusesOf(kind)
    /\ kind = "complaint" => \A i \in 1..Len(doc.comments) : doc.comments[i].message # ""

\* PUT /:id/status after its validation chain
StatusReceived(route, id, status, rawNote) ==
    LET req == [IdleTrack EXCEPT !.op = "status", !.route = route, !.kind = KindOf(route),
                    !.id = id, !.status = status,
                    !.note = IF Validated(route) THEN Trim(rawNote) ELSE rawNote]
    IN IF Validated(route) /\ status \notin StatusesOf(KindOf(route))
       THEN [req EXCEPT !.resp = [status |-> 400, message |-> "Validation failed"]]
       ELSE [req EXCEPT !.pc = "findById"]

StatusRequest ==
    /\ nTrack' = nTrack + 1
    /\ \E route \in Routes, id \in Ids, rawNote \in Notes :
          \E status \in StatusInputs(KindOf(route)) :
             track' = StatusReceived(route, id, status, rawNote)
    /\ UNCHANGED <<complaints, services, notifications, auditLogs>>

\* PUT /:id/status received while no other request is being served
StatusStart == TrackIdle /\ StatusRequest

\* PUT /:id/status received, whatever the bulk handler is doing
StatusArrives == TrackFree /\ StatusRequest

\* the assignments of PUT /:id/status between findById and save
ApplySingleStatus(kind, doc, status, note, actor) ==
    IF kind = "complaint"
    THEN [doc EXCEPT !.status = status,
                     !.history = Append(doc.history,
                         [action |-> <<"Status Updated to", status>>,
                          by |-> actor.name, timestamp |-> now, note |-> note])]
    ELSE [doc EXCEPT !.status = status,
                     !.rejectionReason = IF status = "rejected" THEN note ELSE @,
                     !.approvalNote = IF status = "approved" THEN note ELSE @]

\* findById resolved or threw; not found; the rejection note of services
StatusFindById ==
    /\ track.pc = "findById"
    /\ track.op = "status"
    /\ \/ TrackRespond([status |-> 500])
       \/ /\ track.id \notin DOMAIN Store(track.kind)
          /\ TrackRespond([status |-> 404, message |-> NotFoundMessage(track.kind)])
       \/ /\ track.id \in DOMAIN Store(track.kind)
          /\ LET d == Store(track.kind)[track.id]
             IN IF track.kind = "service" /\ track.status = "rejected" /\ ~Truthy(track.note)
                THEN TrackRespond([status |-> 400, message |->
                         "Rejection reason is required when rejecting a request"])
                ELSE track' = [track EXCEPT
                         !.orig = d, !.oldStatus = d.status,
                         !.doc = ApplySingleStatus(track.kind, d, track.status, track.note,
                                                   track.actor),
                         !.pc = "save"]
    /\ UNCHANGED <<complaints, services, notifications, auditLogs, nTrack>>

\* the message of a 500: routes/complaints.js sends error.message
ErrorMessage(route, message) ==
    IF Validated(route) THEN "Server error. Please try again." ELSE message

\* save resolved or threw, or was refused by the schema validation
StatusSave ==
    /\ track.pc = "save"
    /\ track.op = "status"
    /\ \/ /\ TrackRespond([status |-> 500,
                            message |-> ErrorMessage(track.route, "exception")])
          /\ UNCHANGED <<complaints, services>>
       \/ /\ ~SchemaValid(track.kind, track.doc)
          /\ TrackRespond([status |-> 500,
                           message |-> ErrorMessage(track.route, "validation")])
          /\ UNCHANGED <<complaints, services>>
       \/ /\ SchemaValid(track.kind, track.doc)
          /\ Stores(track.kind, track.id,
                    SaveDoc(track.kind, Store(track.kind)[track.id], track.orig, track.doc))
          /\ track' = [track EXCEPT !.pc = "audit"]
    /\ UNCHANGED <<notifications, auditLogs, nTrack>>

\* createAuditLog returned; then the owner test (routes/complaints.js sends
\* no notification)
StatusAudit ==
    /\ track.pc = "audit"
    /\ track.op = "status"
    /\ \E storeFails \in BOOLEAN :
          auditLogs' = createAuditLog(auditLogs,
              [userId |-> track.actor.id,
               action |-> IF track.kind = "complaint" THEN "UPDATE_COMPLAINT_STATUS"
                          ELSE "UPDATE_SERVICE_STATUS",
               resource |-> <<"#", track.id>>,
               status |-> "success"],
              storeFails)
    /\ IF Validated(track.route) /\ track.doc.userId # track.actor.id
       THEN track' = [track EXCEPT !.pc = "notify"]
       ELSE TrackRespond([status |-> 200, body |-> track.doc])
    /\ UNCHANGED <<complaints, services, notifications, nTrack>>

\* Notification.create resolved or threw (the handler's catch answers 500)
StatusNotify ==
    /\ track.pc = "notify"
    /\ track.op = "status"
    /\ \/ /\ TrackRespond([status |-> 500])
          /\ UNCHANGED notifications
       \/ /\ notifications' = Append(notifications,
                 [userId |-> track.doc.userId, kind |-> track.kind, id |-> track.id,
                  from |-> track.oldStatus, to |-> track.status,
                  type |-> NotificationType(track.kind, track.status)])
          /\ TrackRespond([status |-> 200, body |-> track.doc])
    /\ UNCHANGED <<complaints, services, auditLogs, nTrack>>

\* POST /:id/comments after its validation chain
CommentReceived(route, id, actor, message) ==
    LET req == [IdleTrack EXCEPT !.op = "comment", !.route = route, !.kind = "complaint",
                    !.id = id, !.actor = actor, !.message = message]
    IN IF Validated(route) /\ message = ""
       THEN [req EXCEPT !.resp = [status |-> 400, message |-> "Validation failed"]]
       ELSE [req EXCEPT !.pc = "findById"]

CommentStart ==
    /\ TrackIdle
    /\ nTrack' = nTrack + 1
    /\ \E route \in ComplaintRoutes, id \in Ids, actor \in Actors, message \in Messages :
          track' = CommentReceived(route, id, actor, message)
    /\ UNCHANGED <<complaints, services, notifications, auditLogs>>

\* findById resolved or threw; not found; the access check; comments.push
CommentFindById ==
    /\ track.pc = "findById"
    /\ track.op = "comment"
    /\ \/ TrackRespond([status |-> 500])
       \/ /\ track.id \notin DOMAIN complaints
          /\ TrackRespond([status |-> 404, message |-> "Complaint not found"])
       \/ /\ track.id \in DOMAIN complaints
          /\ LET d == complaints[track.id]
             IN IF /\ Validated(track.route)
                   /\ track.actor.role = "resident"
                   /\ d.userId # track.actor.id
                THEN TrackRespond([status |-> 403, message |->
                         "Not authorized to comment on this complaint"])
                ELSE track' = [track EXCEPT
                         !.orig = d,
                         !.doc = [d EXCEPT !.comments = Append(d.comments,
                                     [userId |-> track.actor.id, userName |-> track.actor.name,
                                      userRole |-> track.actor.role,
                                      message |-> track.message, timestamp |-> now])],
                         !.pc = "save"]
    /\ UNCHANGED <<complaints, services, notifications, auditLogs, nTrack>>

\* save resolved or threw; 201 with the comment
CommentSave ==
    /\ track.pc = "save"
    /\ track.op = "comment"
    /\ \/ /\ TrackRespond([status |-> 500])
          /\ UNCHANGED <<complaints, services>>
       \/ /\ SchemaValid("complaint", track.doc)
          /\ Stores("complaint", track.id,
                    SaveDoc("complaint", complaints[track.id], track.orig, track.doc))
          /\ TrackRespond([status |-> 201,
                           body |-> track.doc.comments[Len(track.doc.comments)]])
    /\ UNCHANGED <<notifications, auditLogs, nTrack>>

\* the _id of a new document is one that no stored document has
FreshIds(kind) == Ids \ DOMAIN Store(kind)

\* POST / after its validation chain; valid: the body has the required fields
CreateReceived(route, actor, valid) ==
    LET req == [IdleTrack EXCEPT !.op = "create", !.route = route, !.kind = KindOf(route),
                    !.actor = actor, !.valid = valid]
    IN IF Validated(route) /\ ~valid
       THEN [req EXCEPT !.resp = [status |-> 400, message |-> "Validation failed"]]
       ELSE [req EXCEPT !.pc = "create"]

CreateStart ==
    /\ TrackIdle
    /\ nTrack' = nTrack + 1
    /\ \E route \in Routes, actor \in {Resident1, Resident2}, valid \in BOOLEAN :
          track' = CreateReceived(route, actor, valid)
    /\ UNCHANGED <<complaints, services, notifications, auditLogs>>

\* Model.create resolved or threw (a schema validation error included); the
\* pre-save hook of a new complaint pushes the filed entry
CreateSave ==
    /\ track.pc = "create"
    /\ \/ /\ TrackRespond([status |-> 500])
          /\ UNCHANGED <<complaints, services>>
       \/ /\ track.valid
          /\ \E id \in FreshIds(track.kind) :
                LET d == IF track.kind = "complaint"
                         THEN [NewComplaint(track.actor.id) EXCEPT
                                  !.history = <<[FiledEntry EXCEPT !.timestamp = now]>>]
                         ELSE NewService(track.actor.id)
                IN /\ Stores(track.kind, id, d)
                   /\ track' = [track EXCEPT !.id = id, !.doc = d, !.pc = "populate"]
    /\ UNCHANGED <<notifications, auditLogs, nTrack>>

\* findById(...).populate resolved or threw
CreatePopulate ==
    /\ track.pc = "populate"
    /\ \/ TrackRespond([status |-> 500])
       \/ track' = [track EXCEPT !.pc = "audit"]
    /\ UNCHANGED <<complaints, services, notifications, auditLogs, nTrack>>

\* createAuditLog returned (routes/complaints.js then answers 201)
CreateAudit ==
    /\ track.pc = "audit"
    /\ track.op = "create"
    /\ \E storeFails \in BOOLEAN :
          auditLogs' = createAuditLog(auditLogs,
              [userId |-> track.actor.id,
               action |-> IF track.kind = "complaint" THEN "CREATE_COMPLAINT"
                          ELSE "CREATE_SERVICE_REQUEST",
               resource |-> <<"#", track.id>>,
               status |-> "success"],
              storeFails)
    /\ IF Validated(track.route)
       THEN track' = [track EXCEPT !.pc = "notify"]
       ELSE TrackRespond([status |-> 201, body |-> track.doc])
    /\ UNCHANGED <<complaints, services, notifications, nTrack>>

\* notifyAdminsAndStaff returned: it catches its own errors
CreateNotify ==
    /\ track.pc = "notify"
    /\ track.op = "create"
    /\ \/ UNCHANGED notifications
       \/ notifications' = Append(notifications,
              [userId |-> Actor.id, kind |-> track.kind, id |-> track.id,
               from |-> UNDEFINED, to |-> UNDEFINED, type |-> "info"])
    /\ TrackRespond([status |-> 201, body |-> track.doc])
    /\ UNCHANGED <<complaints, services, auditLogs, nTrack>>

ShortIdLists == UNION {[1..n -> Ids] : n \in 0..MaxIdsTrack}

InitTrack ==
    /\ track = IdleTrack
    /\ nTrack = 0

NextTrack ==
    \/ /\ \/ BulkStartOf(ShortIdLists)
          \/ BulkFindById
          \/ BulkSave
          \/ BulkNotify
          \/ BulkAudit
       /\ UNCHANGED trackVars
    \/ /\ \/ StatusStart
          \/ StatusFindById
          \/ StatusSave
          \/ StatusAudit
          \/ StatusNotify
          \/ CommentStart
          \/ CommentFindById
          \/ CommentSave
          \/ CreateStart
          \/ CreateSave
          \/ CreatePopulate
          \/ CreateAudit
          \/ CreateNotify
       /\ UNCHANGED <<bulk, nBulk>>

\* a bulk update and single status updates served concurrently: each await
\* of one handler lets the other run
NextUpdates ==
    \/ /\ \/ BulkReceivedOf(ShortIdLists)
          \/ BulkFindById
          \/ BulkSave
          \/ BulkNotify
          \/ BulkAudit
       /\ UNCHANGED trackVars
    \/ /\ \/ StatusArrives
          \/ StatusFindById
          \/ StatusSave
          \/ StatusAudit
          \/ StatusNotify
       /\ UNCHANGED <<bulk, nBulk>>

----------------------------------------------------------------------------
(* routes/complaints.js and routes/services.js: GET / (the list query)     *)

Admin1 == [id |-> "admin1", name |-> "Ada Admin", role |-> "admin"]
ListActors == Actors \cup {Admin1}

\* req.query: what the client sends for each parameter the handlers read,
\* and a userId parameter, which they do not read
StatusParams == {UNDEFINED, "", "all", "pending", "{$ne:null}"}
ChoiceParams == {UNDEFINED, "all", "x"}
SearchParams == {UNDEFINED, "", "all", "road"}
DateParams == {UNDEFINED, "all", "2024-01-01"}
NumberParams == {<<>>, <<2>>}
UserIdParams == {UNDEFINED, "resident2"}

Params ==
    [status : StatusParams, category : ChoiceParams, type : ChoiceParams,
     priority : ChoiceParams, search : SearchParams,
     startDate : DateParams, endDate : DateParams,
     page : NumberParams, limit : NumberParams, userId : UserIdParams]

EmptyQuery == [k \in {} |-> UNDEFINED]

\* query[key] = value
Assign(query, key, value) == (key :> value) @@ query

\* new Date(value) of a query parameter
NewDate(value) == IF value = "2024-01-01" THEN "2024-01-01T00:00:00.000Z" ELSE "Invalid Date"

\* variant of BuildQuery whose status filter lacks the test for "all"
BuildQuery_NoSentinel(kind, actor, q) ==
    LET q1 == IF actor.role = "resident" THEN Assign(EmptyQuery, "userId", actor.id)
              ELSE EmptyQuery
        q2 == IF Truthy(q.status) THEN Assign(q1, "status", q.status)
              ELSE q1
        q3 == IF kind = "complaint"
              THEN IF Truthy(q.category) /\ q.category # "all"
                   THEN Assign(q2, "category", q.category) ELSE q2
              ELSE IF Truthy(q.type) /\ q.type # "all"
                   THEN Assign(q2, "requestType", q.type) ELSE q2
        q4 == IF kind = "complaint" /\ Truthy(q.priority) /\ q.priority # "all"
              THEN Assign(q3, "priority", q.priority) ELSE q3
        q5 == IF Truthy(q.search)
              THEN Assign(q4, "$or",
                     IF kind = "complaint"
                     THEN <<[field |-> "title", regex |-> q.search],
                            [field |-> "description", regex |-> q.search]>>
                     ELSE <<[field |-> "itemName", regex |-> q.search],
                            [field |-> "purpose", regex |-> q.search]>>)
              ELSE q4
    IN IF Truthy(q.startDate) \/ Truthy(q.endDate)
       THEN Assign(q5, "createdAt",
              (IF Truthy(q.startDate) THEN Assign(EmptyQuery, "$gte", NewDate(q.startDate))
               ELSE EmptyQuery)
              @@ (IF Truthy(q.endDate) THEN Assign(EmptyQuery, "$lte", NewDate(q.endDate))
                  ELSE EmptyQuery))
       ELSE q5

\* variant of BuildQuery that copies the client's userId parameter
BuildQuery_ClientUserId(kind, actor, q) ==
    LET q1 == IF actor.role = "resident" THEN Assign(EmptyQuery, "userId", actor.id)
              ELSE EmptyQuery
        q2 == IF Truthy(q.status) /\ q.status # "all" THEN Assign(q1, "status", q.status)
              ELSE q1
    IN IF Truthy(q.userId) THEN Assign(q2, "userId", q.userId) ELSE q2

\* let query = {} and the assignments that follow it
BuildQuery(kind, actor, q) ==
    LET q1 == IF actor.role = "resident" THEN Assign(EmptyQuery, "userId", actor.id)
              ELSE EmptyQuery
        q2 == IF Truthy(q.status) /\ q.status # "all" THEN Assign(q1, "status", q.status)
              ELSE q1
        q3 == IF kind = "complaint"
              THEN IF Truthy(q.category) /\ q.category # "all"
                   THEN Assign(q2, "category", q.category) ELSE q2
              ELSE IF Truthy(q.type) /\ q.type # "all"
                   THEN Assign(q2, "requestType", q.type) ELSE q2
        q4 == IF kind = "complaint" /\ Truthy(q.priority) /\ q.priority # "all"
              THEN Assign(q3, "priority", q.priority) ELSE q3
        q5 == IF Truthy(q.search)
              THEN Assign(q4, "$or",
                     IF kind = "complaint"
                     THEN <<[field |-> "title", regex |-> q.search],
                            [field |-> "description", regex |-> q.search]>>
                     ELSE <<[field |-> "itemName", regex |-> q.search],
                            [field |-> "purpose", regex |-> q.search]>>)
              ELSE q4
    IN IF Truthy(q.startDate) \/ Truthy(q.endDate)
       THEN Assign(q5, "createdAt",
              (IF Truthy(q.startDate) THEN Assign(EmptyQuery, "$gte", NewDate(q.startDate))
               ELSE EmptyQuery)
              @@ (IF Truthy(q.endDate) THEN Assign(EmptyQuery, "$lte", NewDate(q.endDate))
                  ELSE EmptyQuery))
       ELSE q5

\* page and limit: server-side pagination when both are positive
Paging(q) ==
    LET page == ParseIntOr(q.page, 0)
        limit == ParseIntOr(q.limit, 0)
    IN IF page > 0 /\ limit > 0
       THEN [paged |-> TRUE, skip |-> (page - 1) * limit, limit |-> limit]
       ELSE [paged |-> FALSE, skip |-> 0, limit |-> 0]

\* params: req.query; used: the predicates passed to the store so far
IdleList ==
    [pc |-> "idle", kind |-> "none", actor |-> Actor, params |-> EmptyQuery,
     query |-> EmptyQuery, used |-> {},
     paging |-> [paged |-> FALSE, skip |-> 0, limit |-> 0], resp |-> NoResp]

\* the predicate is built and the first query of the store is awaited
ListStart ==
    /\ list.pc = "idle"
    /\ \E kind \in Kinds, actor \in ListActors, q \in Params :
          /\ kind = "complaint" => q.type = UNDEFINED
          /\ kind = "service" => (q.category = UNDEFINED /\ q.priority = UNDEFINED)
          /\ list' = [IdleList EXCEPT !.kind = kind, !.actor = actor, !.params = q,
                         !.query = BuildQuery(kind, actor, q), !.paging = Paging(q),
                         !.used = {BuildQuery(kind, actor, q)},
                         !.pc = IF Paging(q).paged THEN "count" ELSE "find"]

\* server-side pagination: countDocuments(query) resolved or threw; then
\* find(query)
ListCount ==
    /\ list.pc = "count"
    /\ \/ list' = [IdleList EXCEPT !.resp = [status |-> 500]]
       \/ list' = [list EXCEPT !.pc = "find", !.used = @ \cup {list.query}]

\* find resolved or threw; the response is sent and the handler's query is
\* dropped
ListFind ==
    /\ list.pc = "find"
    /\ \/ list' = [IdleList EXCEPT !.resp = [status |-> 500]]
       \/ list' = [IdleList EXCEPT !.resp = [status |-> 200, paged |-> list.paging.paged]]

InitList == list = IdleList

NextList ==
    \/ ListStart
    \/ ListCount
    \/ ListFind

----------------------------------------------------------------------------
(* The daily job checkOverdueServices (unnamed/part_003).  The only caller *)
(* is the cron callback, so one run ends before the next begins; the clock *)
(* advances between the turns of a run, midnight included.  The job reads  *)
(* the service requests with their return dates and writes notifications   *)
(* with their creation time.                                               *)

\* clock units in a day (local time); 1000 * 60 * 60 * 24 ms in the source
DayLength == 2

JobUsers == {"resident1", "resident2"}

\* populate("userId") of a reference to a deleted user
NoUser == "null"

OverdueTitle == "Overdue Return Notice"
ReminderTitle == "Return Reminder"

JobIds == <<"s1", "s2">>

\* the ServiceRequest documents the job can meet: any owner, a status in or
\* out of the job's filter, no return date or one of two
LoanDocs ==
    [userId : JobUsers \cup {NoUser},
     status : {"borrowed", "pending"},
     expectedReturnDate : {NULL, 0, 3}]

\* today.setHours(0, 0, 0, 0)
Today(t) == t - (t % DayLength)

\* twoDaysFromNow.setDate(getDate() + 2)
TwoDaysFrom(today) == today + 2 * DayLength

InJobStatus(d) == d.status \in {"borrowed", "approved"}

\* { status: {$in: [...]}, expectedReturnDate: {$lt: today} }
IsOverdue(d, today) ==
    /\ InJobStatus(d)
    /\ d.expectedReturnDate # NULL
    /\ d.expectedReturnDate < today

\* { status: {$in: [...]}, expectedReturnDate: {$gte: today, $lte: twoDaysFromNow} }
IsDueSoon(d, today) ==
    /\ InJobStatus(d)
    /\ d.expectedReturnDate # NULL
    /\ d.expectedReturnDate >= today
    /\ d.expectedReturnDate <= TwoDaysFrom(today)

RECURSIVE Filter(_, _, _)
\* ServiceRequest.find(filter): the ids of ids whose document passes
Filter(ids, today, overdue) ==
    IF ids = <<>> THEN <<>>
    ELSE LET d == loans[Head(ids)]
             rest == Filter(Tail(ids), today, overdue)
         IN IF (IF overdue THEN IsOverdue(d, today) ELSE IsDueSoon(d, today))
            THEN <<Head(ids)>> \o rest
            ELSE rest

\* variant of ExistingNotification with $gt for $gte
ExistingNotification_Gt(userId, title, today) ==
    \E i \in DOMAIN notices :
        /\ notices[i].userId = userId
        /\ notices[i].title = title
        /\ notices[i].createdAt > today

\* Notification.findOne({ userId, title, createdAt: {$gte: today} })
ExistingNotification(userId, title, today) ==
    \E i \in DOMAIN notices :
        /\ notices[i].userId = userId
        /\ notices[i].title = title
        /\ notices[i].createdAt >= today

IdleJob ==
    [pc |-> "idle", today |-> NULL, title |-> OverdueTitle, queue |-> <<>>,
     createdAt |-> NULL, existingNotification |-> FALSE]

\* the catch of the whole job: the error is logged and the run ends
JobAborted(j) == [j EXCEPT !.pc = "idle", !.queue = <<>>]

\* the head of a for loop over j.queue, up to its next await.
\* service.userId._id throws on a null userId.
LoopHead(j) ==
    IF j.queue = <<>>
    THEN IF j.title = OverdueTitle
         THEN [j EXCEPT !.pc = "findDueSoon"]
         ELSE [j EXCEPT !.pc = "idle"]
    ELSE IF loans[Head(j.queue)].userId = NoUser
         THEN JobAborted(j)
         ELSE [j EXCEPT !.pc = "findOne"]

\* the cron callback fires
JobStart ==
    /\ job.pc = "idle"
    /\ nJob < MaxRuns
    /\ nJob' = nJob + 1
    /\ job' = [IdleJob EXCEPT !.pc = "findOverdue", !.today = Today(clock)]
    /\ UNCHANGED <<clock, loans, notices>>

\* the find of the overdue services resolved or threw
JobFindOverdue ==
    /\ job.pc = "findOverdue"
    /\ \/ job' = JobAborted(job)
       \/ job' = LoopHead([job EXCEPT !.queue = Filter(JobIds, job.today, TRUE),
                                      !.title = OverdueTitle])
    /\ UNCHANGED <<clock, loans, notices, nJob>>

\* the findOne of today's notification resolved or threw; the notification
\* is built here, with its creation time
JobFindOne ==
    /\ job.pc = "findOne"
    /\ \/ job' = JobAborted(job)
       \/ LET userId == loans[Head(job.queue)].userId
              existing == ExistingNotification(userId, job.title, job.today)
          IN job' = IF existing
                    THEN LoopHead([job EXCEPT !.queue = Tail(job.queue),
                                              !.existingNotification = TRUE])
                    ELSE [job EXCEPT !.pc = "create", !.createdAt = clock,
                                     !.existingNotification = FALSE]
    /\ UNCHANGED <<clock, loans, notices, nJob>>

\* Notification.create resolved or threw
JobCreate ==
    /\ job.pc = "create"
    /\ \/ /\ job' = JobAborted(job)
          /\ UNCHANGED notices
       \/ /\ notices' = Append(notices,
                 [userId |-> loans[Head(job.queue)].userId,
                  title |-> job.title,
                  type |-> IF job.title = OverdueTitle THEN "warning" ELSE "info",
                  createdAt |-> job.createdAt])
          /\ job' = LoopHead([job EXCEPT !.queue = Tail(job.queue)])
    /\ UNCHANGED <<clock, loans, nJob>>

\* the find of the due-soon services resolved or threw
JobFindDueSoon ==
    /\ job.pc = "findDueSoon"
    /\ \/ job' = JobAborted(job)
       \/ job' = LoopHead([job EXCEPT !.queue = Filter(JobIds, job.today, FALSE),
                                      !.title = ReminderTitle])
    /\ UNCHANGED <<clock, loans, notices, nJob>>

\* time passes
JobTick ==
    /\ clock < MaxClock
    /\ clock' = clock + 1
    /\ UNCHANGED <<loans, notices, job, nJob>>

\* the job scheduled over a collection of service requests
InitJobOver(collections) ==
    /\ clock = 0
    /\ loans \in collections
    /\ notices = <<>>
    /\ job = IdleJob
    /\ nJob = 0

\* a collection without borrowed items
NoLoans ==
    [i \in {JobIds[k] : k \in DOMAIN JobIds} |->
        [userId |-> "resident1", status |-> "pending", expectedReturnDate |-> NULL]]

InitJob ==
    /\ clock = 0
    /\ loans = NoLoans
    /\ notices = <<>>
    /\ job = IdleJob
    /\ nJob = 0

NextJob ==
    \/ JobStart
    \/ JobFindOverdue
    \/ JobFindOne
    \/ JobCreate
    \/ JobFindDueSoon
    \/ JobTick

----------------------------------------------------------------------------
(* routes/auth.js: POST /register and PUT /profile; routes/admin.js:       *)
(* PUT /users/:id.  The stored User document of the login account is the   *)
(* lockout paths (user) together with its other paths (account); the       *)
(* documents of the other accounts are in registry.  firstName stands for  *)
(* the string paths the handlers copy the same way (lastName, address,     *)
(* phoneNumber).  These requests run concurrently with logins.             *)

Known == "known"               \* _id of the account that logs in
Admin == "admin1"              \* _id of req.user of the admin route

LockoutPaths == {"loginAttempts", "lockoutUntil", "lastFailedLogin"}

Restrict(d, paths) == [f \in paths |-> d[f]]

\* new User({...}) with the schema defaults
NewAccount(firstName, role) ==
    [firstName |-> firstName, avatar |-> "default", idDocumentUrl |-> UNDEFINED,
     role |-> role, isVerified |-> FALSE] @@ NewUser

AccountOf(id) == IF id = Known THEN account @@ user ELSE registry[id]

AccountIds == {Known} \cup DOMAIN registry

\* the document of id is replaced by d in the store
StoreAccount(id, d) ==
    IF id = Known
    THEN /\ user' = Restrict(d, LockoutPaths)
         /\ account' = Restrict(d, DOMAIN d \ LockoutPaths)
         /\ UNCHANGED registry
    ELSE /\ registry' = [i \in DOMAIN registry \cup {id} |->
                            IF i = id THEN d ELSE registry[i]]
         /\ UNCHANGED <<user, account>>

\* variant of SaveAccount that writes the whole document as it was loaded
SaveAccount_WholeDocument(id, orig, doc) == StoreAccount(id, doc)

\* user.save(): the modified paths of the loaded document are written
SaveAccount(id, orig, doc) == StoreAccount(id, Save(AccountOf(id), orig, doc))

NoBody ==
    [email |-> UNDEFINED, firstName |-> UNDEFINED, avatar |-> UNDEFINED,
     idDocumentUrl |-> UNDEFINED, role |-> UNDEFINED, isVerified |-> <<>>]

IdleAcct ==
    [pc |-> "idle", op |-> "none", target |-> "none", body |-> NoBody,
     orig |-> NoDoc, doc |-> NoDoc, resp |-> NoResp]

AcctRespond(r) == acct' = [acct EXCEPT !.pc = "idle", !.resp = r, !.orig = NoDoc, !.doc = NoDoc]

\* isLength({min: 2, max: 50}) and the letters pattern
NameValid(name) == name \notin {"", "x"}

\* the base64 size test of avatar and idDocumentUrl
TooLarge(data) == data = "huge"

\* a request is received; the validators run, then the first await
AcctStart ==
    /\ acct.pc = "idle"
    /\ nAcct < MaxAcct
    /\ nAcct' = nAcct + 1
    /\ \/ \E email \in {"bad", Known, "new"}, firstName \in {"", "x", "Ana"} :
             LET req == [IdleAcct EXCEPT !.op = "register", !.target = email,
                             !.body = [NoBody EXCEPT !.email = email, !.firstName = firstName]]
             IN acct' = IF email = "bad" \/ ~NameValid(firstName)
                        THEN [req EXCEPT !.resp = [status |-> 400, message |-> "Validation failed"]]
                        ELSE [req EXCEPT !.pc = "findOne"]
       \/ \E firstName \in {UNDEFINED, "x", "Bea"}, avatar \in {UNDEFINED, "", "img", "huge"},
             idDocumentUrl \in {UNDEFINED, "", "doc", "huge"} :
             LET req == [IdleAcct EXCEPT !.op = "profile", !.target = Known,
                             !.body = [NoBody EXCEPT !.firstName = firstName, !.avatar = avatar,
                                                     !.idDocumentUrl = idDocumentUrl]]
             IN acct' = IF firstName # UNDEFINED /\ ~NameValid(firstName)
                        THEN [req EXCEPT !.resp = [status |-> 400, message |-> "Validation failed"]]
                        ELSE [req EXCEPT !.pc = "findById"]
       \/ \E id \in {Known, Admin, "missing"}, role \in {UNDEFINED, "staff", "bogus"},
             isVerified \in {<<>>, <<TRUE>>, <<FALSE>>} :
             LET req == [IdleAcct EXCEPT !.op = "admin", !.target = id,
                             !.body = [NoBody EXCEPT !.role = role, !.isVerified = isVerified]]
             IN acct' = IF role = "bogus"
                        THEN [req EXCEPT !.resp = [status |-> 400, message |-> "Validation failed"]]
                        ELSE [req EXCEPT !.pc = "findById"]
    /\ UNCHANGED <<user, account, registry>>

\* POST /register: User.findOne({email}) resolved or threw
RegisterFindOne ==
    /\ acct.pc = "findOne"
    /\ \/ AcctRespond([status |-> 500])
       \/ /\ acct.target \in AccountIds
          /\ AcctRespond([status |-> 400, message |-> "User already exists with this email"])
       \/ /\ acct.target \notin AccountIds
          /\ acct' = [acct EXCEPT !.pc = "create"]
    /\ UNCHANGED <<user, account, registry, nAcct>>

\* POST /register: User.create resolved or threw (the unique index rejects
\* an email stored meanwhile)
RegisterCreate ==
    /\ acct.pc = "create"
    /\ \/ /\ AcctRespond([status |-> 500])
          /\ UNCHANGED <<user, account, registry>>
       \/ /\ acct.target \notin AccountIds
          /\ StoreAccount(acct.target, NewAccount(acct.body.firstName, "resident"))
          /\ acct' = [acct EXCEPT !.pc = "audit"]
    /\ UNCHANGED nAcct

\* PUT /profile: the assignments of the body to the loaded document
ApplyProfile(d, body) ==
    [d EXCEPT !.firstName = IF body.firstName # UNDEFINED THEN body.firstName ELSE @,
              !.avatar = IF body.avatar # UNDEFINED THEN body.avatar ELSE @,
              !.idDocumentUrl = IF body.idDocumentUrl # UNDEFINED THEN body.idDocumentUrl ELSE @]

\* PUT /users/:id: the assignments of the body to the loaded document
ApplyAdmin(d, body) ==
    [d EXCEPT !.role = IF body.role # UNDEFINED THEN body.role ELSE @,
              !.isVerified = IF body.isVerified # <<>> THEN body.isVerified[1] ELSE @]

\* findById resolved or threw; the checks and assignments up to the next await
AcctFindById ==
    /\ acct.pc = "findById"
    /\ \/ AcctRespond([status |-> 500])
       \/ /\ acct.target \notin AccountIds
          /\ AcctRespond([status |-> 404, message |-> "User not found"])
       \/ /\ acct.target \in AccountIds
          /\ LET d == AccountOf(acct.target)
                 b == acct.body
             IN IF acct.op = "profile"
                THEN IF b.avatar # UNDEFINED /\ TooLarge(b.avatar)
                     THEN AcctRespond([status |-> 413])
                     ELSE IF b.idDocumentUrl # UNDEFINED /\ TooLarge(b.idDocumentUrl)
                     THEN AcctRespond([status |-> 413])
                     ELSE acct' = [acct EXCEPT
                              !.orig = d, !.doc = ApplyProfile(d, b),
                              !.pc = IF b.idDocumentUrl \notin {UNDEFINED, ""}
                                     THEN "auditChange" ELSE "save"]
                ELSE IF b.role # UNDEFINED /\ acct.target = Admin
                     THEN AcctRespond([status |-> 400, message |-> "Cannot change your own role"])
                     ELSE acct' = [acct EXCEPT
                              !.orig = d, !.doc = ApplyAdmin(d, b),
                              !.pc = IF b.isVerified # <<>> /\ b.isVerified[1] # d.isVerified
                                     THEN "auditChange" ELSE "save"]
    /\ UNCHANGED <<user, account, registry, nAcct>>

\* createAuditLog of USER_ID_UPLOAD / USER_VERIFIED returned; user.save() is called
AcctAuditChange ==
    /\ acct.pc = "auditChange"
    /\ acct' = [acct EXCEPT !.pc = "save"]
    /\ UNCHANGED <<user, account, registry, nAcct>>

\* user.save() resolved or threw
AcctSave ==
    /\ acct.pc = "save"
    /\ \/ /\ AcctRespond([status |-> 500])
          /\ UNCHANGED <<user, account, registry>>
       \/ /\ SaveAccount(acct.target, acct.orig, acct.doc)
          /\ acct' = [acct EXCEPT !.pc = "audit"]
    /\ UNCHANGED nAcct

\* the last createAuditLog returned; the response
AcctAudit ==
    /\ acct.pc = "audit"
    /\ AcctRespond([status |-> IF acct.op = "register" THEN 201 ELSE 200])
    /\ UNCHANGED <<user, account, registry, nAcct>>

InitAccount ==
    /\ account = Restrict(NewAccount("Ana", "resident"),
                          DOMAIN NewAccount("Ana", "resident") \ LockoutPaths)
    /\ registry = (Admin :> NewAccount("Root", "admin"))
    /\ acct = IdleAcct
    /\ nAcct = 0

\* the account requests, and logins of at most MaxAcctFails recorded
\* failures and MaxAcctTicks clock advances around them
NextAccount ==
    \/ /\ \/ AcctStart
          \/ RegisterFindOne
          \/ RegisterCreate
          \/ AcctFindById
          \/ AcctAuditChange
          \/ AcctSave
          \/ AcctAudit
       /\ UNCHANGED <<env, now, ticks, login, consecFails>>
    \/ /\ NextLogin
       /\ ticks' <= MaxAcctTicks
       /\ user'.loginAttempts <= MaxAcctFails
       /\ UNCHANGED acctVars

----------------------------------------------------------------------------
----------------------------------------------------------------------------
(* routes/events.js: POST / (create) and POST /:id/register, and           *)
(* models/Event.js.  Several requests are served at once: each await of a  *)
(* handler lets the others run.                                            *)

EventIds == {"e1"}
EventUsers == {"resident1", "resident2"}
RegSessions == {"r1", "r2"}

\* req.body.maxAttendees of POST /
MaxAttendeesInputs == {0, 1, 2}

\* Event.create with the named fields: the schema defaults apply
NewEvent(maxAttendees) ==
    [maxAttendees |-> maxAttendees, currentAttendees |-> 0, registeredUsers |-> <<>>]

\* eventSchema: maxAttendees required, min 1; currentAttendees min 0
EventValid(e) == e.maxAttendees >= 1 /\ e.currentAttendees >= 0

\* registeredUsers.includes(req.user._id)
Includes(registeredUsers, id) ==
    \E i \in 1..Len(registeredUsers) : registeredUsers[i] = id

\* event.save(): $set of currentAttendees when it was modified, $push of
\* the ids pushed to registeredUsers since the document was loaded
SaveEvent(stored, orig, doc) ==
    [maxAttendees     |-> stored.maxAttendees,
     currentAttendees |-> IF doc.currentAttendees # orig.currentAttendees
                          THEN doc.currentAttendees ELSE stored.currentAttendees,
     registeredUsers  |-> Pushed(stored.registeredUsers, orig.registeredUsers,
                                 doc.registeredUsers)]

IdleReg ==
    [pc |-> "idle", op |-> "none", id |-> "none", user |-> "none", maxAttendees |-> 0,
     orig |-> NoDoc, doc |-> NoDoc, resp |-> NoResp]

\* the response is sent: the handler's documents are dropped
RegRespond(s, r) ==
    reg' = [reg EXCEPT ![s] = [@ EXCEPT !.pc = "idle", !.orig = NoDoc, !.doc = NoDoc,
                                        !.resp = r]]

RegFree(s) == reg[s].pc = "idle" /\ nReg < MaxReg

\* POST / by staff: await Event.create
EventCreateStart(s) ==
    /\ RegFree(s)
    /\ nReg' = nReg + 1
    /\ \E maxAttendees \in MaxAttendeesInputs :
          reg' = [reg EXCEPT ![s] = [IdleReg EXCEPT !.pc = "create", !.op = "create",
                                         !.user = Actor.id, !.maxAttendees = maxAttendees]]
    /\ UNCHANGED <<events, auditLogs, notifications>>

\* Event.create resolved, threw, or was refused by the schema validation
EventCreate(s) ==
    /\ reg[s].pc = "create"
    /\ \/ /\ RegRespond(s, [status |-> 500])
          /\ UNCHANGED events
       \/ /\ ~EventValid(NewEvent(reg[s].maxAttendees))
          /\ RegRespond(s, [status |-> 500])
          /\ UNCHANGED events
       \/ /\ EventValid(NewEvent(reg[s].maxAttendees))
          /\ \E id \in EventIds \ DOMAIN events :
                /\ events' = [i \in DOMAIN events \cup {id} |->
                                 IF i = id THEN NewEvent(reg[s].maxAttendees) ELSE events[i]]
                /\ reg' = [reg EXCEPT ![s].pc = "createAudit", ![s].id = id]
    /\ UNCHANGED <<nReg, auditLogs, notifications>>

\* createAuditLog returned; 201
EventCreateAudit(s) ==
    /\ reg[s].pc = "createAudit"
    /\ \E storeFails \in BOOLEAN :
          auditLogs' = createAuditLog(auditLogs,
              [userId |-> reg[s].user, action |-> "CREATE_EVENT",
               resource |-> <<"#", reg[s].id>>, status |-> "success"],
              storeFails)
    /\ RegRespond(s, [status |-> 201])
    /\ UNCHANGED <<events, nReg, notifications>>

\* POST /:id/register by a signed-in user: await Event.findById
RegisterStart(s) ==
    /\ RegFree(s)
    /\ nReg' = nReg + 1
    /\ \E id \in EventIds, u \in EventUsers :
          reg' = [reg EXCEPT ![s] = [IdleReg EXCEPT !.pc = "findById", !.op = "register",
                                         !.id = id, !.user = u]]
    /\ UNCHANGED <<events, auditLogs, notifications>>

\* findById resolved or threw; not found; already registered; full;
\* otherwise registeredUsers.push and currentAttendees += 1
RegisterFindById(s) ==
    /\ reg[s].pc = "findById"
    /\ \/ RegRespond(s, [status |-> 500])
       \/ /\ reg[s].id \notin DOMAIN events
          /\ RegRespond(s, [status |-> 404, message |-> "Event not found"])
       \/ /\ reg[s].id \in DOMAIN events
          /\ LET event == events[reg[s].id]
             IN IF Includes(event.registeredUsers, reg[s].user)
                THEN RegRespond(s, [status |-> 400,
                                    message |-> "Already registered for this event"])
                ELSE IF event.currentAttendees >= event.maxAttendees
                THEN RegRespond(s, [status |-> 400, message |-> "Event is full"])
                ELSE reg' = [reg EXCEPT
                         ![s].orig = event,
                         ![s].doc = [event EXCEPT
                             !.registeredUsers = Append(@, reg[s].user),
                             !.currentAttendees = @ + 1],
                         ![s].pc = "save"]
    /\ UNCHANGED <<events, nReg, auditLogs, notifications>>

\* event.save() resolved or threw
RegisterSave(s) ==
    /\ reg[s].pc = "save"
    /\ \/ /\ RegRespond(s, [status |-> 500])
          /\ UNCHANGED events
       \/ /\ events' = [events EXCEPT
                 ![reg[s].id] = SaveEvent(@, reg[s].orig, reg[s].doc)]
          /\ reg' = [reg EXCEPT ![s].pc = "notify"]
    /\ UNCHANGED <<nReg, auditLogs, notifications>>

\* notifyAdminsAndStaff returned (it catches its own errors); 200
RegisterNotify(s) ==
    /\ reg[s].pc = "notify"
    /\ \/ UNCHANGED notifications
       \/ notifications' = notifications \o
              <<[userId |-> Admin1.id, title |-> "New Event Registration", type |-> "info"],
                [userId |-> Actor.id, title |-> "New Event Registration", type |-> "info"]>>
    /\ RegRespond(s, [status |-> 200, message |-> "Successfully registered for event"])
    /\ UNCHANGED <<events, nReg, auditLogs>>

InitEvents ==
    /\ events = [id \in {} |-> NoDoc]
    /\ reg = [s \in RegSessions |-> IdleReg]
    /\ nReg = 0

NextEvents ==
    \/ \E s \in RegSessions : EventCreateStart(s)
    \/ \E s \in RegSessions : EventCreate(s)
    \/ \E s \in RegSessions : EventCreateAudit(s)
    \/ \E s \in RegSessions : RegisterStart(s)
    \/ \E s \in RegSessions : RegisterFindById(s)
    \/ \E s \in RegSessions : RegisterSave(s)
    \/ \E s \in RegSessions : RegisterNotify(s)

Init == InitLogin /\ InitBulk /\ InitTrack /\ InitList /\ InitJob /\ InitAccount /\ InitEvents

SpecLogin == Init /\ [][NextLogin /\ UNCHANGED <<bulkVars, trackVars, listVars, jobVars, acctVars, eventVars>>]_vars

\* process.env as the deployment may set it: each lockout variable unset (or
\* not a number), 0, a positive or a negative integer
Envs ==
    [LOGIN_MAX_ATTEMPTS : {<<>>, <<2>>, <<-3>>},
     LOGIN_LOCKOUT_DURATION_MS : {<<>>, <<0>>, <<1000>>, <<-1000>>},
     REQUEST_TIMEOUT_SECONDS : {<<>>}]

InitLoginEnv ==
    /\ env \in Envs
    /\ now = 0
    /\ ticks = 0
    /\ user = NewUser
    /\ login = [s \in Sessions |-> IdleLogin]
    /\ consecFails = 0

\* the login handler under every environment of Envs
InitEnv == InitLoginEnv /\ InitBulk /\ InitTrack /\ InitList /\ InitJob /\ InitAccount /\ InitEvents

SpecLoginEnv == InitEnv /\ [][NextLogin /\ UNCHANGED <<bulkVars, trackVars, listVars, jobVars, acctVars, eventVars>>]_vars

InitConcurrent == InitLoginConcurrent /\ InitBulk /\ InitTrack /\ InitList /\ InitJob /\ InitAccount /\ InitEvents

SpecLoginConcurrent == InitConcurrent /\ [][NextLoginConcurrent /\ UNCHANGED <<bulkVars, trackVars, listVars, jobVars, acctVars, eventVars>>]_vars

SpecBulk == Init /\ [][NextBulk /\ UNCHANGED <<loginVars, trackVars, listVars, jobVars, acctVars, eventVars>>]_vars

SpecTrack == Init /\ [][NextTrack /\ UNCHANGED <<loginVars, listVars, jobVars, acctVars, eventVars>>]_vars

SpecUpdates == Init /\ [][NextUpdates /\ UNCHANGED <<loginVars, listVars, jobVars, acctVars, eventVars>>]_vars

SpecList == Init /\ [][NextList /\ UNCHANGED <<loginVars, bulkVars, trackVars, jobVars, acctVars, eventVars>>]_vars

\* the job over every collection of service requests of the bounded shapes
InitJobAny ==
    /\ InitLogin /\ InitBulk /\ InitTrack /\ InitList /\ InitAccount /\ InitEvents
    /\ InitJobOver([{JobIds[i] : i \in DOMAIN JobIds} -> LoanDocs])

SpecAccount == Init /\ [][NextAccount /\ UNCHANGED <<bulkVars, trackVars, listVars, jobVars, eventVars>>]_vars

SpecEvents == Init /\ [][NextEvents /\ UNCHANGED <<loginVars, complaints, services, bulk, nBulk, trackVars, listVars, jobVars, acctVars>>]_vars

SpecJob == InitJobAny /\ [][NextJob /\ UNCHANGED <<loginVars, bulkVars, trackVars, listVars, acctVars, eventVars>>]_vars

----------------------------------------------------------------------------
(* The lockout contract, in the words of the specification's               *)
(* checkLockStatus(account, now): what the claims below compare the code   *)
(* with.                                                                   *)

Locked(u, t) == u.lockoutUntil # NULL /\ t < u.lockoutUntil

\* max(0, ceil((lockedUntil - now) / 1000)) when locked, else 0
RemainingSeconds(u, t) ==
    IF ~Locked(u, t) THEN 0
    ELSE CHOOSE k \in 1..(LOCKOUT_CONFIG.lockoutDuration \div 1000 + 1) :
             k * 1000 >= u.lockoutUntil - t /\ (k - 1) * 1000 < u.lockoutUntil - t

Cleared(u) == u.loginAttempts = 0 /\ u.lockoutUntil = NULL /\ u.lastFailedLogin = NULL

\* session s leaves control point p in this step without a server error
Leaves(s, p) ==
    /\ login[s].pc = p
    /\ login'[s].pc # p
    /\ login'[s].resp.status # 500

Answers(s, p) == login[s].pc = p /\ login'[s].pc = "idle"

----------------------------------------------------------------------------
(* C1: the failed attempt that brings the number of consecutive wrong-     *)
(* password attempts to maxAttempts or more leaves the account locked      *)
(* with remainingSeconds > 0; a request whose lock check finds the account *)
(* locked is answered 423 whatever its password, and the password is       *)
(* never compared while the account is locked.                             *)
C1_LockAfterMaxAttempts ==
    /\ [][(consecFails' > consecFails /\ consecFails' >= LOCKOUT_CONFIG.maxAttempts)
            => (Locked(user', now') /\ RemainingSeconds(user', now') > 0
                /\ isLockedOut(user', now') /\ getRemainingLockoutTime(user', now') > 0)]_loginVars
    /\ [][\A s \in Sessions :
            /\ (Leaves(s, "findOne") /\ login[s].email = "known" /\ Locked(user, now))
                 => login'[s].pc = "auditLocked"
            /\ Answers(s, "auditLocked")
                 => (login'[s].resp.status = 423 /\ ~login'[s].compared)]_loginVars
    /\ [](\A s \in Sessions : login[s].pc = "matchPassword" => ~Locked(user, now))

C1_Witness ==
    \E s \in Sessions :
        /\ consecFails >= LOCKOUT_CONFIG.maxAttempts
        /\ login[s].pc = "idle"
        /\ login[s].password = "correct"
        /\ login[s].resp.status = 423
        /\ ~login[s].compared
        /\ Locked(user, now)

(* C2: once the clock has passed lockoutUntil the lock check reports not   *)
(* locked and 0 remaining seconds although lockoutUntil is still stored,   *)
(* and a locked account becomes unlocked only by the passage of time,      *)
(* never by a write to the account.                                        *)
C2_LockExpiresWithoutWrite ==
    /\ []((user.lockoutUntil # NULL /\ now > user.lockoutUntil)
            => (~isLockedOut(user, now) /\ getRemainingLockoutTime(user, now) = 0))
    /\ [][(isLockedOut(user, now) /\ ~isLockedOut(user', now'))
            => (user' = user /\ now' >= user.lockoutUntil)]_loginVars
    /\ [][\A s \in Sessions :
            (Leaves(s, "findOne") /\ login[s].email = "known"
               /\ user.lockoutUntil # NULL /\ now > user.lockoutUntil)
            => login'[s].pc = "matchPassword"]_loginVars

C2_Witness ==
    \E s \in Sessions :
        /\ user.lockoutUntil # NULL
        /\ now > user.lockoutUntil
        /\ user.loginAttempts >= LOCKOUT_CONFIG.maxAttempts
        /\ login[s].pc = "matchPassword"
        /\ login[s].orig = user

(* C3: after a successful login on an account that was loaded with         *)
(* 1 <= loginAttempts < maxAttempts, the stored account has                *)
(* loginAttempts = 0, no lockoutUntil and no lastFailedLogin.              *)
C3_SuccessResets ==
    \A s \in Sessions :
        (/\ login[s].pc \in {"auditSuccess", "idle"}
         /\ login[s].password = "correct"
         /\ login[s].compared
         /\ login[s].resp.status \in {0, 200}
         /\ login[s].orig.loginAttempts \in 1..(LOCKOUT_CONFIG.maxAttempts - 1))
        => Cleared(user)

C3_Witness ==
    \E s \in Sessions :
        /\ login[s].pc = "idle"
        /\ login[s].resp.status = 200
        /\ login[s].orig.loginAttempts \in 1..(LOCKOUT_CONFIG.maxAttempts - 1)
        /\ login[s].orig.lastFailedLogin # NULL
        /\ Cleared(user)

(* C4: a login attempt made while the account is locked leaves             *)
(* loginAttempts, lockoutUntil and lastFailedLogin as they are: no step of *)
(* a request that found the lock changes the account, and when it is       *)
(* answered the stored account is the one it loaded.                       *)
C4_LockedAttemptChangesNothing ==
    /\ [][(\E s \in Sessions :
              \/ login[s].pc = "auditLocked"
              \/ (login[s].pc = "findOne" /\ login[s].email = "known" /\ Locked(user, now)))
            => user' = user]_loginVars
    /\ [](\A s \in Sessions :
            (login[s].pc = "idle" /\ login[s].resp.status = 423 /\ ~login[s].compared)
            => user = login[s].orig)

C4_Witness ==
    \E s \in Sessions :
        /\ login[s].pc = "idle"
        /\ login[s].resp.status = 423
        /\ ~login[s].compared
        /\ login[s].password = "wrong"
        /\ user = login[s].orig
        /\ now > user.lastFailedLogin

(* C5: a recorded failed attempt at time now adds exactly 1 to             *)
(* loginAttempts and sets lastFailedLogin = now; it sets lockoutUntil =     *)
(* now + lockoutDuration exactly when the new count is >= maxAttempts and  *)
(* otherwise keeps lockoutUntil; the save stores exactly that document.    *)
(* With maxAttempts = 5, lockoutDuration = 300000 and 4 prior failures the *)
(* 5th failure at time T is answered 423 with remainingAttempts = 0 and    *)
(* lockoutUntil = T + 300000.                                              *)
C5_RecordFailedAttempt ==
    [][\A s \in Sessions :
        /\ (Leaves(s, "matchPassword") /\ login[s].password = "wrong")
             => LET d == login[s].doc
                    e == login'[s].doc
                IN /\ e.loginAttempts = d.loginAttempts + 1
                   /\ e.lastFailedLogin = now
                   /\ e.lockoutUntil = IF d.loginAttempts + 1 >= LOCKOUT_CONFIG.maxAttempts
                                       THEN now + LOCKOUT_CONFIG.lockoutDuration
                                       ELSE d.lockoutUntil
        /\ Leaves(s, "saveAttempts")
             => (user' = login[s].doc /\ user'.loginAttempts = user.loginAttempts + 1)
        /\ (Answers(s, "auditFailed") /\ login[s].orig.loginAttempts = 4
              /\ LOCKOUT_CONFIG = [maxAttempts |-> 5, lockoutDuration |-> 300000])
             => /\ login'[s].resp.status = 423
                /\ login'[s].resp.remainingAttempts = 0
                /\ login'[s].resp.lockoutUntil = user.lastFailedLogin + 300000
                /\ user.lockoutUntil = user.lastFailedLogin + 300000]_loginVars

C5_Witness ==
    \E s \in Sessions :
        /\ login[s].pc = "idle"
        /\ login[s].orig.loginAttempts = 4
        /\ login[s].resp.status = 423
        /\ login[s].compared
        /\ user.loginAttempts = 5
        /\ user.lastFailedLogin > 0
        /\ user.lockoutUntil = user.lastFailedLogin + 300000

----------------------------------------------------------------------------
(* Bulk status update                                                      *)

Answered == bulk.pc = "idle" /\ bulk.resp.status = 200

Threw(r) == ~r.success /\ r.error = "exception"

Count(results, flag) == Cardinality({i \in 1..Len(results) : results[i].success = flag})

(* C7: the answer to a bulk status update has updated + failed =           *)
(* length(ids) and one result per id, the i-th result carrying the i-th    *)
(* id; updated and failed count the succeeded and the failed results.      *)
C7_OneResultPerId ==
    /\ Len(bulk.results) = bulk.successCount + bulk.failedCount
    /\ Answered =>
         /\ Len(bulk.ids) >= 1
         /\ bulk.resp.updated + bulk.resp.failed = Len(bulk.ids)
         /\ Len(bulk.resp.results) = Len(bulk.ids)
         /\ \A i \in 1..Len(bulk.ids) : bulk.resp.results[i].id = bulk.ids[i]
         /\ bulk.resp.updated = Count(bulk.resp.results, TRUE)
         /\ bulk.resp.failed = Count(bulk.resp.results, FALSE)

C7_Witness ==
    /\ Answered
    /\ Len(bulk.ids) = 3
    /\ bulk.ids[1] = bulk.ids[3]
    /\ bulk.resp.updated = 2
    /\ bulk.resp.failed = 1

(* C8: an id of no stored document gets a failed result with the not-found *)
(* message, and no stored id ever gets it; the batch goes on: every id has *)
(* its result, and every stored id whose own lookup, save and notification *)
(* raise no exception is updated to the target status and reported         *)
(* succeeded, wherever the missing id stands in the list.                  *)
C8_MissingIdFailsAlone ==
    Answered =>
      /\ Len(bulk.resp.results) = Len(bulk.ids)
      /\ \A i \in 1..Len(bulk.ids) :
           LET r == bulk.resp.results[i]
               stored == bulk.ids[i] \in DOMAIN Store(bulk.kind)
           IN /\ (~stored /\ ~Threw(r))
                   => (~r.success /\ r.error = NotFoundMessage(bulk.kind))
              /\ (stored /\ ~Threw(r))
                   => (r.success /\ Store(bulk.kind)[bulk.ids[i]].status = bulk.status)

C8_Witness ==
    /\ Answered
    /\ bulk.ids = <<"b", "a", "c">>
    /\ bulk.resp.results = <<[id |-> "b", success |-> FALSE, error |-> NotFoundMessage(bulk.kind)],
                             [id |-> "a", success |-> TRUE],
                             [id |-> "c", success |-> TRUE]>>
    /\ Store(bulk.kind)["a"].status = "closed"
    /\ Store(bulk.kind)["c"].status = "closed"

(* C9: a bulk update to rejected without a note (absent, empty or blank)   *)
(* is answered 400 at once: no id is looked up, and the step that receives *)
(* it changes no document, creates no notification and no audit log.       *)
C9_RejectWithoutNoteFailsFast ==
    /\ []((bulk.kind # "none" /\ bulk.status = "rejected" /\ ~Truthy(bulk.note))
            => (bulk.pc = "idle" /\ bulk.resp.status = 400
                /\ bulk.i = 0 /\ bulk.results = <<>>))
    /\ [][bulk.pc = "idle"
            => UNCHANGED <<complaints, services, notifications, auditLogs>>]_vars

C9_Witness ==
    /\ bulk.kind = "service"
    /\ bulk.status = "rejected"
    /\ bulk.note = ""
    /\ Len(bulk.ids) = 3
    /\ bulk.resp.status = 400
    /\ notifications = <<>>
    /\ auditLogs = <<>>

(* C10: success is true exactly when failed = 0; a request that passed the *)
(* validation is answered 200 whatever its items did; and the service      *)
(* request ids [a, b, c], target rejected, note "bad request", b missing   *)
(* and no exception, give success = false, updated = 2, failed = 1 and the *)
(* results (a, true), (b, false, not found), (c, true).                    *)
C10_ResultShape ==
    /\ Answered => (bulk.resp.success <=> bulk.resp.failed = 0)
    /\ (bulk.pc = "idle" /\ bulk.kind # "none" /\ Len(bulk.ids) >= 1
          /\ bulk.status \in StatusesOf(bulk.kind)
          /\ ~(bulk.status = "rejected" /\ ~Truthy(bulk.note)))
         => bulk.resp.status = 200
    /\ (Answered /\ bulk.kind = "service" /\ bulk.ids = <<"a", "b", "c">>
          /\ bulk.status = "rejected" /\ bulk.note = "bad request"
          /\ \A i \in 1..3 : ~Threw(bulk.resp.results[i]))
         => bulk.resp = [status |-> 200, success |-> FALSE, updated |-> 2, failed |-> 1,
                         results |-> <<[id |-> "a", success |-> TRUE],
                                       [id |-> "b", success |-> FALSE,
                                        error |-> "Service request not found"],
                                       [id |-> "c", success |-> TRUE]>>]

C10_Witness ==
    /\ Answered
    /\ bulk.kind = "service"
    /\ bulk.ids = <<"a", "b", "c">>
    /\ bulk.status = "rejected"
    /\ bulk.note = "bad request"
    /\ bulk.resp.success = FALSE
    /\ bulk.resp.updated = 2
    /\ bulk.resp.failed = 1
    /\ services["a"].rejectionReason = "bad request"
    /\ services["c"].status = "rejected"

----------------------------------------------------------------------------
(* Trackable requests: status, history, notifications                      *)

StoreNext(kind) == IF kind = "complaint" THEN complaints' ELSE services'

\* this step is the save of a status update (single or bulk) of document id
\* of the kind, and the save resolved
StatusWrite(kind, id) ==
    \/ /\ bulk.pc = "save" /\ bulk.kind = kind /\ bulk.ids[bulk.i] = id
       /\ bulk'.pc = "notify" \/ bulk'.successCount = bulk.successCount + 1
    \/ /\ track.pc = "save" /\ track.op = "status" /\ track.kind = kind /\ track.id = id
       /\ track'.pc = "audit"

(* C11 as claimed: for both kinds, every resolved save of a status update  *)
(* (single or bulk) adds exactly one statusHistory entry to the document   *)
(* it writes, the stored status changes only in such a save, and the       *)
(* history grows only there and by one entry.                              *)
C11_HistoryPerStatusWrite ==
    [][\A kind \in Kinds : \A id \in DOMAIN Store(kind) :
          LET d == Store(kind)[id]
              e == StoreNext(kind)[id]
          IN /\ StatusWrite(kind, id)
                  => Len(HistoryOf(kind, e)) = Len(HistoryOf(kind, d)) + 1
             /\ e.status # d.status => StatusWrite(kind, id)
             /\ Len(HistoryOf(kind, e)) # Len(HistoryOf(kind, d))
                  => (StatusWrite(kind, id)
                      /\ Len(HistoryOf(kind, e)) = Len(HistoryOf(kind, d)) + 1)]_vars

(* C12 as claimed: once an item's status write has persisted and its       *)
(* notification is being created, the item is reported succeeded and       *)
(* counted in updated whether Notification.create resolves or throws, and  *)
(* its result carries no error.                                            *)
C12_NotificationFailureNeverFailsItem ==
    [][bulk.pc = "notify"
         => /\ bulk'.successCount = bulk.successCount + 1
            /\ bulk'.failedCount = bulk.failedCount
            /\ Len(bulk'.results) = Len(bulk.results) + 1
            /\ bulk'.results[Len(bulk'.results)].id = bulk.ids[bulk.i]
            /\ bulk'.results[Len(bulk'.results)].success
            /\ DOMAIN bulk'.results[Len(bulk'.results)] = {"id", "success"}]_vars

(* C13: the predicate built for GET /complaints and GET /services holds    *)
(* userId = the actor's id whenever the actor is a resident, whatever the  *)
(* client sends as status, category or type, priority, search, date range, *)
(* page, limit or userId, and holds no userId constraint when the actor is *)
(* staff or admin.                                                         *)
C13_ResidentPredicateOwnsOnly ==
    list.kind # "none" =>
       /\ list.actor.role = "resident"
            => ("userId" \in DOMAIN list.query /\ list.query["userId"] = list.actor.id)
       /\ list.actor.role \in {"staff", "admin"} => "userId" \notin DOMAIN list.query

C13_Witness ==
    /\ list.kind = "complaint"
    /\ list.actor = Resident1
    /\ DOMAIN list.query = {"userId", "status", "category", "priority", "$or", "createdAt"}
    /\ list.query["userId"] = "resident1"
    /\ list.query["status"] = "{$ne:null}"
    /\ list.paging.paged
    /\ list.resp.status = 0

\* this step belongs to a single or bulk status update whose status is not
\* one of the statuses of its kind
OutOfEnumUpdateStep ==
    \/ /\ bulk.pc # "idle" \/ nBulk' # nBulk
       /\ bulk'.status \notin StatusesOf(bulk'.kind)
    \/ /\ (track.pc # "idle" /\ track.op = "status") \/ (nTrack' # nTrack /\ track'.op = "status")
       /\ track'.status \notin StatusesOf(track'.kind)

IsPrefix(h, g) == Len(h) <= Len(g) /\ SubSeq(g, 1, Len(h)) = h

(* C19 as claimed: for both kinds, in every step (create, single or bulk   *)
(* status update, comment) the statusHistory of every stored document is a *)
(* prefix of its statusHistory after the step, and a document that the     *)
(* step creates has exactly one entry, made by the system.                 *)
C19_HistoryAppendOnly ==
    [][\A kind \in Kinds :
          /\ \A id \in DOMAIN Store(kind) :
                /\ id \in DOMAIN StoreNext(kind)
                /\ IsPrefix(HistoryOf(kind, Store(kind)[id]),
                            HistoryOf(kind, StoreNext(kind)[id]))
          /\ \A id \in DOMAIN StoreNext(kind) \ DOMAIN Store(kind) :
                LET h == HistoryOf(kind, StoreNext(kind)[id])
                IN Len(h) = 1 /\ h[1].by = "System"]_vars

(* C19 for complaints alone: the history of a stored complaint only grows  *)
(* at its end, comments leave it as it is, and a new complaint has the     *)
(* single entry "Complaint Filed" by "System".                             *)
C19_ComplaintHistoryAppendOnly ==
    [][/\ \A id \in DOMAIN complaints :
             /\ id \in DOMAIN complaints'
             /\ IsPrefix(complaints[id].history, complaints'[id].history)
             /\ (track.op = "comment" /\ track.pc # "idle")
                  => complaints'[id].history = complaints[id].history
       /\ \A id \in DOMAIN complaints' \ DOMAIN complaints :
             complaints'[id].history =
                 <<[action |-> "Complaint Filed", by |-> "System", timestamp |-> now,
                    note |-> UNDEFINED]>>]_vars

(* C11 for complaints alone: every resolved save of a status update of a   *)
(* complaint adds exactly one history entry, which names the new status,   *)
(* and status and history change nowhere else.                             *)
C11_ComplaintHistoryPerStatusWrite ==
    [][\A id \in DOMAIN complaints :
          LET d == complaints[id]
              e == complaints'[id]
          IN /\ StatusWrite("complaint", id)
                  => /\ Len(e.history) = Len(d.history) + 1
                     /\ e.history[Len(e.history)].action = <<"Status Updated to", e.status>>
             /\ (e.status # d.status \/ e.history # d.history) => StatusWrite("complaint", id)]_vars

\* in this step the bulk update pushes the result of the item it is at
ItemDone == Len(bulk'.results) = Len(bulk.results) + 1

LastResult == bulk'.results[Len(bulk'.results)]

\* in this step one notification is appended to the stored notifications
Created ==
    /\ Len(notifications') = Len(notifications) + 1
    /\ SubSeq(notifications', 1, Len(notifications)) = notifications

\* the status write of the item whose result this step pushes has persisted:
\* its save had resolved before, or resolves in this step
Persisted ==
    \/ bulk.pc = "notify"
    \/ bulk.pc = "save" /\ LastResult.success

OwnerIsNotActor ==
    /\ bulk.ids[bulk.i] \in DOMAIN Store(bulk.kind)
    /\ Store(bulk.kind)[bulk.ids[bulk.i]].userId # Actor.id

(* C20 as claimed: the step that ends an item creates a notification       *)
(* exactly when the item's status write persisted and its owner is not the *)
(* actor; no other step creates one.                                       *)
C20_NotificationIffPersistedAndNotOwner ==
    [][/\ ItemDone => (Created <=> (Persisted /\ OwnerIsNotActor))
       /\ ~ItemDone => notifications' = notifications]_vars

(* C20, amended: a notification is created for an item exactly when the    *)
(* item's status write persisted, its owner is not the actor and           *)
(* Notification.create did not throw (the item is then reported            *)
(* succeeded); it is addressed to the owner and names the item and the     *)
(* transition; a not-found item, an item whose save failed and an item of  *)
(* the actor get none, and no step creates more than one.                  *)
C20_NotificationCreation ==
    [][/\ notifications' = notifications \/ (Created /\ ItemDone)
       /\ ItemDone => (Created <=> (Persisted /\ OwnerIsNotActor /\ LastResult.success))
       /\ (ItemDone /\ bulk.ids[bulk.i] \notin DOMAIN Store(bulk.kind)) => ~Created
       /\ (ItemDone /\ bulk.pc = "save" /\ ~LastResult.success) => ~Created
       /\ Created =>
            LET n == notifications'[Len(notifications')]
            IN /\ n.userId = Store(bulk.kind)[bulk.ids[bulk.i]].userId
               /\ n.userId # Actor.id
               /\ n.id = bulk.ids[bulk.i]
               /\ n.kind = bulk.kind
               /\ n.to = bulk.status]_vars

C20_Witness ==
    /\ Answered
    /\ bulk.ids = <<"a", "c", "b">>
    /\ bulk.status = "resolved"
    /\ bulk.resp.updated = 2
    /\ bulk.resp.results[1].success
    /\ bulk.resp.results[2].success
    /\ Len(notifications) = 1
    /\ notifications[1].userId = "resident1"
    /\ notifications[1].id = "a"
    /\ notifications[1].from = "pending"

\* the day a notification was created on
DayOf(t) == Today(t)

NoticesOn(userId, title, day) ==
    {i \in DOMAIN notices : /\ notices[i].userId = userId
                            /\ notices[i].title = title
                            /\ DayOf(notices[i].createdAt) = day}

(* C15: however many runs of checkOverdueServices there are, for every     *)
(* user and every calendar day at most one overdue notice and at most one  *)
(* return reminder created on that day exist.                              *)
C15_OneNoticePerUserPerDay ==
    \A u \in JobUsers, title \in {OverdueTitle, ReminderTitle}, t \in 0..MaxClock :
        Cardinality(NoticesOn(u, title, DayOf(t))) <= 1

\* the second run of a day has ended after finding the notification of the
\* first; the user has one notice and one reminder of that day
C15_Witness ==
    /\ job.pc = "idle"
    /\ nJob = 2
    /\ job.today = DayLength
    /\ job.existingNotification
    /\ Len(notices) = 2
    /\ clock < 2 * DayLength
    /\ Cardinality(NoticesOn("resident1", OverdueTitle, DayLength)) = 1
    /\ Cardinality(NoticesOn("resident1", ReminderTitle, DayLength)) = 1

(* C16 as claimed: in every reachable state the account is Open            *)
(* (loginAttempts below maxAttempts and no active lock) or Locked          *)
(* (lockoutUntil in the future); an account that is not locked has         *)
(* loginAttempts below maxAttempts.                                        *)
C16_OpenOrLocked ==
    \/ Locked(user, now)
    \/ user.loginAttempts < LOCKOUT_CONFIG.maxAttempts

\* in this step session s runs the synchronous part of
\* incrementLoginAttempts and the threshold test passes: lockoutUntil is set
SetsLockoutUntil(s) ==
    /\ login[s].pc = "matchPassword"
    /\ login'[s].pc = "saveAttempts"
    /\ login'[s].doc.loginAttempts >= LOCKOUT_CONFIG.maxAttempts

(* C17 as claimed: the policy constants the program runs with are both     *)
(* positive, and whenever incrementLoginAttempts sets lockoutUntil the     *)
(* value is strictly greater than the clock of that moment.                *)
C17_LockoutUntilInFuture ==
    [][\A s \in Sessions :
          SetsLockoutUntil(s) =>
              /\ LOCKOUT_CONFIG.maxAttempts > 0
              /\ LOCKOUT_CONFIG.lockoutDuration > 0
              /\ login'[s].doc.lockoutUntil > now]_vars

(* C18: resetLoginAttempts saves the account only when loginAttempts > 0   *)
(* or lockoutUntil is present: a save of it is pending only for a          *)
(* document loaded in that condition; on a password match of an account    *)
(* with loginAttempts = 0 and no lockoutUntil the handler goes on without  *)
(* a save, neither the document nor the stored account changes, and the    *)
(* stored account stays unchanged until the request is answered.           *)
C18_ResetWritesOnlyOnChange ==
    [][\A s \in Sessions :
          /\ login'[s].pc = "saveReset" => resetNeeded(login'[s].orig)
          /\ (login[s].pc = "matchPassword" /\ login[s].password = "correct"
                  /\ ~resetNeeded(login[s].doc)) =>
                 /\ login'[s].pc \in {"matchPassword", "auditSuccess"}
                 /\ login'[s].doc = login[s].doc
                 /\ user' = user
          /\ (login[s].pc = "auditSuccess" /\ ~resetNeeded(login[s].orig)) =>
                 /\ user' = user
                 /\ login'[s].pc = "idle" => login'[s].resp.status = 200]_vars

\* a login answered 200 for an account loaded with loginAttempts = 0 and no
\* lockoutUntil; the stored account is as it was loaded
C18_Witness ==
    \E s \in Sessions :
        /\ login[s].pc = "idle"
        /\ login[s].compared
        /\ login[s].resp.status = 200
        /\ ~resetNeeded(login[s].orig)
        /\ login[s].doc = login[s].orig
        /\ user = login[s].orig

(* C21 as claimed: a validated bulk status update records exactly one      *)
(* audit-log entry, in the step after the last item and before the         *)
(* response, also when every item failed; no other step of the handler     *)
(* records one.                                                            *)
C21_ExactlyOneAuditEntry ==
    [][/\ bulk.pc = "audit" =>
            /\ Len(auditLogs') = Len(auditLogs) + 1
            /\ bulk'.pc = "idle"
            /\ bulk'.resp.status = 200
       /\ bulk.pc # "audit" => auditLogs' = auditLogs]_vars

\* in this step the lookup or the save of the current item throws
LookupOrSaveThrows ==
    /\ bulk.pc \in {"findById", "save"}
    /\ Len(bulk'.results) = Len(bulk.results) + 1
    /\ Threw(bulk'.results[Len(bulk'.results)])

(* C22: when findById or save of an item of a bulk update throws, the item *)
(* is reported {id, success: false, error: the exception's message} and    *)
(* counted as failed, no stored document changes (the item keeps its       *)
(* previous status), no notification is created, and the handler goes on   *)
(* with the next id, or with the audit log after the last one.             *)
C22_ExceptionFailsItemOnly ==
    [][LookupOrSaveThrows =>
          /\ bulk'.results = Append(bulk.results,
                 [id |-> bulk.ids[bulk.i], success |-> FALSE, error |-> "exception"])
          /\ bulk'.failedCount = bulk.failedCount + 1
          /\ bulk'.successCount = bulk.successCount
          /\ complaints' = complaints
          /\ services' = services
          /\ notifications' = notifications
          /\ IF bulk.i < Len(bulk.ids)
             THEN bulk'.pc = "findById" /\ bulk'.i = bulk.i + 1
             ELSE bulk'.pc = "audit"]_vars

\* an answered bulk update of two stored items: the save of the first threw
\* and it is still pending, the second was updated
C22_Witness ==
    /\ Answered
    /\ bulk.kind = "complaint"
    /\ bulk.ids = <<"a", "c">>
    /\ bulk.status = "resolved"
    /\ Threw(bulk.resp.results[1])
    /\ bulk.resp.results[2].success
    /\ complaints["a"].status = "pending"
    /\ Len(complaints["a"].history) = 1
    /\ complaints["c"].status = "resolved"
    /\ notifications = <<>>

\* the lockout paths of the stored account id in this state and the next
LockoutOf(id) == Restrict(AccountOf(id), LockoutPaths)

LockoutNextOf(id) ==
    IF id = Known THEN user' ELSE Restrict(registry'[id], LockoutPaths)

(* C23: in every step of a registration, a profile update or an admin user *)
(* update, also with logins of the same account in flight, every stored    *)
(* account keeps its loginAttempts, lockoutUntil and lastFailedLogin, and  *)
(* an account the step creates has loginAttempts = 0 and no lockoutUntil.  *)
C23_LockoutFieldsOnlyByLogin ==
    [][acct' # acct =>
          /\ DOMAIN registry \subseteq DOMAIN registry'
          /\ \A id \in AccountIds : LockoutNextOf(id) = LockoutOf(id)
          /\ \A id \in DOMAIN registry' \ DOMAIN registry :
                /\ registry'[id].loginAttempts = 0
                /\ registry'[id].lockoutUntil = NULL
                /\ registry'[id].lastFailedLogin = NULL]_vars

\* a profile update was saved and answered while a login of the same
\* account has just recorded a failure: the stored account has the new name
\* and the recorded failure
C23_Witness ==
    /\ acct.pc = "idle"
    /\ acct.op = "profile"
    /\ acct.resp.status = 200
    /\ account.firstName = "Bea"
    /\ user.loginAttempts = 1
    /\ \E s \in Sessions : login[s].pc = "auditFailed"

\* the comment request in flight is by a resident on a stored complaint of
\* another account
ForeignComment ==
    /\ track.op = "comment"
    /\ track.pc # "idle"
    /\ track.actor.role = "resident"
    /\ track.id \in DOMAIN complaints
    /\ complaints[track.id].userId # track.actor.id

\* such a request is refused when its lookup resolves (403; 500 when the
\* lookup threw), and no step of it changes a stored complaint
ForeignCommentRefused ==
    /\ complaints' = complaints
    /\ track.pc = "findById" /\ track' # track =>
          /\ track'.pc = "idle"
          /\ track'.resp.status \in {403, 500}

(* C24 as claimed: on every route that adds a comment, a resident's        *)
(* comment on a complaint owned by another account is answered with the    *)
(* authorization error and the complaint is left unchanged.                *)
C24_ResidentCommentsOwnOnly ==
    [][ForeignComment => ForeignCommentRefused]_vars

(* C24 for the handler that has the ownership test (unnamed/part_007): the *)
(* same statement, for its requests alone.                                 *)
C24_ValidatedRouteRefuses ==
    [][(ForeignComment /\ Validated(track.route)) => ForeignCommentRefused]_vars

\* the list request in flight has built its predicate
Listing == list.pc \in {"count", "find"}

Supplied(v) == v # UNDEFINED
NonEmpty(v) == v # UNDEFINED /\ v # ""

\* the conjunct key is in the predicate exactly when cond, and then with value
Conjunct(key, cond, value) ==
    /\ key \in DOMAIN list.query <=> cond
    /\ cond => list.query[key] = value

\* the search conjunct of the kind for the text
SearchOf(kind, text) ==
    IF kind = "complaint"
    THEN <<[field |-> "title", regex |-> text], [field |-> "description", regex |-> text]>>
    ELSE <<[field |-> "itemName", regex |-> text], [field |-> "purpose", regex |-> text]>>

\* the parameter that selects category (complaints) or type (services)
ChoiceOf(kind, p) == IF kind = "complaint" THEN p.category ELSE p.type
ChoiceKey(kind) == IF kind = "complaint" THEN "category" ELSE "requestType"

(* C25 as claimed: each optional filter (status, category or type,         *)
(* priority, the date bounds, search) is a conjunct of the predicate       *)
(* exactly when it is supplied and is not "all"; every store call of the   *)
(* request uses that predicate.                                            *)
C25_FilterIffSuppliedNotAll ==
    Listing =>
       LET p == list.params
           given(v) == Supplied(v) /\ v # "all"
       IN /\ Conjunct("status", given(p.status), p.status)
          /\ Conjunct(ChoiceKey(list.kind), given(ChoiceOf(list.kind, p)), ChoiceOf(list.kind, p))
          /\ list.kind = "complaint" => Conjunct("priority", given(p.priority), p.priority)
          /\ Conjunct("$or", given(p.search), SearchOf(list.kind, p.search))
          /\ "createdAt" \in DOMAIN list.query <=> (given(p.startDate) \/ given(p.endDate))
          /\ list.used = {list.query}

(* C25, amended: status, category or type, and priority are conjuncts      *)
(* exactly when supplied non-empty and not "all"; search and each date     *)
(* bound are conjuncts exactly when supplied non-empty ("all" is an        *)
(* ordinary value for them); the predicate has no other conjunct than      *)
(* these and the role-derived one, and the count and find calls of the     *)
(* paginated path and the find call of the unpaginated path all use it.    *)
C25_FiltersAdded ==
    Listing =>
       LET p == list.params
           chosen(v) == NonEmpty(v) /\ v # "all"
           dated == NonEmpty(p.startDate) \/ NonEmpty(p.endDate)
       IN /\ Conjunct("status", chosen(p.status), p.status)
          /\ Conjunct(ChoiceKey(list.kind), chosen(ChoiceOf(list.kind, p)), ChoiceOf(list.kind, p))
          /\ list.kind = "complaint" => Conjunct("priority", chosen(p.priority), p.priority)
          /\ Conjunct("$or", NonEmpty(p.search), SearchOf(list.kind, p.search))
          /\ "createdAt" \in DOMAIN list.query <=> dated
          /\ dated =>
                /\ "$gte" \in DOMAIN list.query["createdAt"] <=> NonEmpty(p.startDate)
                /\ "$lte" \in DOMAIN list.query["createdAt"] <=> NonEmpty(p.endDate)
                /\ NonEmpty(p.startDate) => list.query["createdAt"]["$gte"] = NewDate(p.startDate)
                /\ NonEmpty(p.endDate) => list.query["createdAt"]["$lte"] = NewDate(p.endDate)
          /\ DOMAIN list.query \subseteq
                {"userId", "status", ChoiceKey(list.kind), "$or", "createdAt"}
                \cup (IF list.kind = "complaint" THEN {"priority"} ELSE {})
          /\ list.used = {list.query}

\* a paginated list of complaints after its count: status all and no
\* category add nothing, priority, search for "all" and a start date do
C25_Witness ==
    /\ list.pc = "find"
    /\ list.paging.paged
    /\ list.kind = "complaint"
    /\ list.actor = Admin1
    /\ list.params.status = "all"
    /\ list.params.category = UNDEFINED
    /\ list.params.search = "all"
    /\ DOMAIN list.query = {"priority", "$or", "createdAt"}
    /\ DOMAIN list.query["createdAt"] = {"$gte"}

(* C26 as claimed: under every interleaving of concurrent logins of one    *)
(* account, each recorded wrong-password attempt raises the stored         *)
(* loginAttempts by exactly 1, and no more than maxAttempts wrong          *)
(* passwords are compared since the last reset.                            *)
C26_NoLostUpdate ==
    [][/\ \A s \in DOMAIN login :
             (login[s].pc = "saveAttempts" /\ login'[s].pc = "auditFailed")
                 => user'.loginAttempts = user.loginAttempts + 1
       /\ consecFails' <= LOCKOUT_CONFIG.maxAttempts]_vars

(* C27: a lock that has expired leaves the failure counter where it was,   *)
(* at maxAttempts or more: whenever a lock is stored, expired or not, the  *)
(* stored counter is at least maxAttempts.  The next wrong password after  *)
(* the expiry is counted on top of it and stores a new lock that ends      *)
(* lockoutDuration after the time it was counted at.  The stored counter   *)
(* goes from a positive value to 0 only in the save of resetLoginAttempts, *)
(* which the handler reaches only with the account's password.             *)
ExpiredLock(u, t) == u.lockoutUntil # NULL /\ u.lockoutUntil <= t

C27_ExpiredLockKeepsCount ==
    [][/\ user.lockoutUntil # NULL
            => user.loginAttempts >= LOCKOUT_CONFIG.maxAttempts
       /\ \A s \in Sessions :
            /\ (login[s].pc = "matchPassword" /\ login'[s].pc = "saveAttempts"
                  /\ ExpiredLock(login[s].doc, now))
                 => /\ login'[s].doc.loginAttempts = login[s].doc.loginAttempts + 1
                    /\ login'[s].doc.loginAttempts > LOCKOUT_CONFIG.maxAttempts
                    /\ login'[s].doc.lockoutUntil = now + LOCKOUT_CONFIG.lockoutDuration
            /\ (login[s].pc = "saveAttempts" /\ login'[s].pc = "auditFailed"
                  /\ login[s].orig.lockoutUntil # NULL)
                 => /\ user'.loginAttempts = user.loginAttempts + 1
                    /\ user'.lockoutUntil = login[s].doc.lockoutUntil
                    /\ user'.lockoutUntil =
                           user'.lastFailedLogin + LOCKOUT_CONFIG.lockoutDuration
       /\ (user.loginAttempts > 0 /\ user'.loginAttempts = 0)
            => \E s \in Sessions :
                  /\ login[s].pc = "saveReset"
                  /\ login'[s].pc = "auditSuccess"
                  /\ login[s].password = "correct"]_vars

\* the wrong password after an expired lock has been counted and saved
C27_Witness ==
    \E s \in Sessions :
        /\ login[s].pc = "auditFailed"
        /\ login[s].password = "wrong"
        /\ ExpiredLock(login[s].orig, login[s].started)
        /\ login[s].orig.loginAttempts = LOCKOUT_CONFIG.maxAttempts
        /\ user.loginAttempts = LOCKOUT_CONFIG.maxAttempts + 1
        /\ user.lockoutUntil = user.lastFailedLogin + LOCKOUT_CONFIG.lockoutDuration
        /\ user.lockoutUntil > login[s].orig.lockoutUntil

(* C28: whatever single and bulk status updates were made, one after the   *)
(* other or overlapping, every stored complaint has the status named by    *)
(* the newest "Status Updated to X" entry of its history, or pending when  *)
(* its history holds the filed entry only.                                 *)
LastStatus(history) ==
    IF Len(history) <= 1 THEN "pending" ELSE history[Len(history)].action[2]

C28_StatusIsNewestHistoryEntry ==
    \A id \in DOMAIN complaints :
        complaints[id].status = LastStatus(complaints[id].history)

(* C29 as claimed: a status update of a stored document (single or bulk)   *)
(* whose status is in the enum of the kind is not refused because of the   *)
(* status the document has, and its save stores the requested status from  *)
(* whatever status; when the requested status is the status the document   *)
(* already has, the save still adds one history entry and, the owner not   *)
(* being the actor, the handler still goes on to create the notification.  *)
Requested(kind, id) ==
    IF bulk.pc = "save" /\ bulk.kind = kind /\ bulk.ids[bulk.i] = id
    THEN bulk.status ELSE track.status

C29_NoTransitionOrder ==
    [][/\ \A kind \in Kinds : \A id \in DOMAIN Store(kind) :
             LET d == Store(kind)[id]
                 e == StoreNext(kind)[id]
             IN StatusWrite(kind, id)
                  => /\ e.status = Requested(kind, id)
                     /\ d.status = Requested(kind, id)
                          => Len(HistoryOf(kind, e)) = Len(HistoryOf(kind, d)) + 1
       /\ (/\ track.pc = "findById" /\ track.op = "status"
           /\ track.id \in DOMAIN Store(track.kind)
           /\ track.status \in StatusesOf(track.kind)
           /\ ~(track.status = "rejected" /\ ~Truthy(track.note))
           /\ track'.pc # "findById")
            => (track'.pc = "save" \/ track'.resp.status = 500)
       /\ (/\ track.pc = "audit" /\ track.op = "status" /\ track'.pc # "audit"
           /\ track.oldStatus = track.status
           /\ track.doc.userId # track.actor.id)
            => track'.pc = "notify"
       /\ (/\ bulk.pc = "save" /\ StatusWrite(bulk.kind, bulk.ids[bulk.i])
           /\ bulk.oldStatus = bulk.status
           /\ bulk.doc.userId # Actor.id)
            => bulk'.pc = "notify"]_vars

(* C30 as claimed: whatever registration requests were made, one after the *)
(* other or overlapping, every stored event has currentAttendees <=        *)
(* maxAttendees, currentAttendees equal to the number of entries of        *)
(* registeredUsers, and no user twice in registeredUsers; a registration   *)
(* answered "Event is full" or "Already registered" leaves the stored      *)
(* events as they were.                                                    *)
EventConsistent(e) ==
    /\ e.currentAttendees <= e.maxAttendees
    /\ e.currentAttendees = Len(e.registeredUsers)
    /\ \A i, j \in 1..Len(e.registeredUsers) :
          e.registeredUsers[i] = e.registeredUsers[j] => i = j

C30_RegistrationKeepsCount ==
    [][/\ \A id \in DOMAIN events' : EventConsistent(events'[id])
       /\ \A s \in RegSessions :
             (reg[s].pc = "findById" /\ reg'[s].resp.status = 400)
                  => events' = events]_vars

====
